---------------------------- MODULE Spec2Model ----------------------------
(***************************************************************************)
(* A model of the AI EDI Control Tower (Streamlit front end).              *)
(*                                                                         *)
(*   auth/roles.py      role resolver and the static permission tables     *)
(*   app.py             sidebar role selector, navigation, page dispatch   *)
(*   api/n8n_client.py  webhook client and its response decoder            *)
(*   ui/upload.py       upload page and its polling loop                   *)
(*   ui/tracker.py, ui/incidents.py   response normalizers                 *)
(*   utils/live_status.py             health probe                         *)
(*   ui/incidents.py, ui/kpis.py, ui/tracker.py, ui/chatbot.py   pages     *)
(*                                                                         *)
(* Python values are tagged records (None, Bool, Num, Str, List, Dict).    *)
(* A Python str is a sequence of one-character strings, so that strip()    *)
(* and lower() are computed character by character.  A number is an        *)
(* integer count of thousandths (Num(500) is 0.5, Num(50000) is 50).       *)
(***************************************************************************)
EXTENDS Integers, Sequences, FiniteSets, TLC

VARIABLES
    envControlTowerRole, \* os.environ["CONTROL_TOWER_ROLE"], or Unset
    envEdiRole,          \* os.environ["EDI_ROLE"], or Unset
    pgPassword,          \* TRUE when CONTROL_TOWER_PG_PASSWORD is configured
    selected_role,       \* st.session_state["selected_role"]
    page,                \* label of the page this pass renders, or "none"
    pc,                  \* position of the current script pass
    run,                 \* the upload run of this pass (see NoRun)
    arg,                 \* input of the pure function under check
    res,                 \* its result
    op,                  \* which pure function produced res ("none" before)
    session,             \* st.session_state of the pages other than upload
    view                 \* what the last pass of such a page did and showed

vars == <<envControlTowerRole, envEdiRole, pgPassword, selected_role, page,
          pc, run, arg, res, op, session, view>>

appVars == <<envControlTowerRole, envEdiRole, pgPassword, selected_role, page,
             pc, run>>

fnVars == <<arg, res, op>>

pageVars == <<session, view>>

-----------------------------------------------------------------------------
(* Python values *)

None == [t |-> "none"]

Bool(b) == [t |-> "bool", b |-> b]

Num(n) == [t |-> "num", n |-> n]

Str(s) == [t |-> "str", s |-> s]

List(xs) == [t |-> "list", xs |-> xs]

Dict(f) == [t |-> "dict", f |-> f]

EmptyDict == Dict(<<>>)

\* in the place of a returned value: the call raised an exception
Raise == [t |-> "raise"]

IsStr(v) == v.t = "str"

IsList(v) == v.t = "list"

IsDict(v) == v.t = "dict"

\* isinstance(v, (int, float)): bool is a subclass of int
IsNumber(v) == v.t = "num" \/ v.t = "bool"

\* the numeric value of an int, float or bool, in thousandths
NumberOf(v) == IF v.t = "bool" THEN (IF v.b THEN 1000 ELSE 0) ELSE v.n

\* bool(v)
Truthy(v) ==
    CASE v.t = "none" -> FALSE
      [] v.t = "bool" -> v.b
      [] v.t = "num"  -> v.n # 0
      [] v.t = "str"  -> Len(v.s) > 0
      [] v.t = "list" -> Len(v.xs) > 0
      [] v.t = "dict" -> DOMAIN v.f # {}

\* a or b
PyOr(a, b) == IF Truthy(a) THEN a ELSE b

\* d.get(k) on a dict d
Get(d, k) == IF k \in DOMAIN d.f THEN d.f[k] ELSE None

\* k in d
HasKey(d, k) == k \in DOMAIN d.f

-----------------------------------------------------------------------------
(* Python str operations, character by character *)

Whitespace == {" ", "\t", "\n"}

Upper == {"A", "B", "C", "D", "E", "F", "G", "H", "I", "J", "K", "L", "M",
          "N", "O", "P", "Q", "R", "S", "T", "U", "V", "W", "X", "Y", "Z"}

LowerOf == [A |-> "a", B |-> "b", C |-> "c", D |-> "d", E |-> "e", F |-> "f",
            G |-> "g", H |-> "h", I |-> "i", J |-> "j", K |-> "k", L |-> "l",
            M |-> "m", N |-> "n", O |-> "o", P |-> "p", Q |-> "q", R |-> "r",
            S |-> "s", T |-> "t", U |-> "u", V |-> "v", W |-> "w", X |-> "x",
            Y |-> "y", Z |-> "z"]

UpperOf == [a |-> "A", b |-> "B", c |-> "C", d |-> "D", e |-> "E", f |-> "F",
            g |-> "G", h |-> "H", i |-> "I", j |-> "J", k |-> "K", l |-> "L",
            m |-> "M", n |-> "N", o |-> "O", p |-> "P", q |-> "Q", r |-> "R",
            s |-> "S", t |-> "T", u |-> "U", v |-> "V", w |-> "W", x |-> "X",
            y |-> "Y", z |-> "Z"]

\* str.lower()
Lower(s) == [i \in 1..Len(s) |-> IF s[i] \in Upper THEN LowerOf[s[i]] ELSE s[i]]

\* str.upper()
ToUpper(s) == [i \in 1..Len(s) |->
                 IF s[i] \in DOMAIN UpperOf THEN UpperOf[s[i]] ELSE s[i]]

RECURSIVE LStrip(_)
\* str.lstrip()
LStrip(s) == IF s # <<>> /\ Head(s) \in Whitespace THEN LStrip(Tail(s)) ELSE s

RECURSIVE RStrip(_)
\* str.rstrip()
RStrip(s) ==
    IF s # <<>> /\ s[Len(s)] \in Whitespace
    THEN RStrip(SubSeq(s, 1, Len(s) - 1)) ELSE s

\* str.strip()
Strip(s) == RStrip(LStrip(s))

-----------------------------------------------------------------------------
(* auth/roles.py *)

\* os.getenv(NAME) of a variable that is not set
Unset == None

\* Role(str, Enum): the members, named by their values
Role == {"Ops", "Manager", "Exec"}

\* the characters of each member's value
RoleValue == [Ops     |-> <<"O", "p", "s">>,
              Manager |-> <<"M", "a", "n", "a", "g", "e", "r">>,
              Exec    |-> <<"E", "x", "e", "c">>]

Feature == {"chatbot", "upload", "kpis", "incidents"}

Permission == {"view", "upload", "manage_incidents", "configure"}

ROLE_FEATURES ==
    [Ops     |-> {"chatbot", "upload", "kpis", "incidents"},
     Manager |-> {"chatbot", "upload", "kpis", "incidents"},
     Exec    |-> {"chatbot", "kpis", "incidents"}]

ROLE_PERMISSIONS ==
    [Ops     |-> {"view", "upload", "manage_incidents"},
     Manager |-> {"view", "upload", "manage_incidents", "configure"},
     Exec    |-> {"view"}]

\* get_current_role falling back to the view-only role
GetCurrentRoleFallbackExec(env) ==
    LET v   == IF env = Unset \/ env.s = <<>> THEN RoleValue["Ops"] ELSE env.s
        raw == Strip(v)
    IN  IF \E r \in Role : RoleValue[r] = raw
        THEN CHOOSE r \in Role : RoleValue[r] = raw
        ELSE "Exec"

\* get_current_role without the strip()
GetCurrentRoleNoStrip(env) ==
    LET raw == IF env = Unset \/ env.s = <<>> THEN RoleValue["Ops"] ELSE env.s
    IN  IF \E r \in Role : RoleValue[r] = raw
        THEN CHOOSE r \in Role : RoleValue[r] = raw
        ELSE "Ops"

\* get_current_role(), env the value of CONTROL_TOWER_ROLE (Unset or a Str):
\*   raw = (os.getenv(NAME, "Ops") or "Ops").strip(); Role(raw), or Role.ops
\*   on ValueError
GetCurrentRole(env) ==
    LET v   == IF env = Unset \/ env.s = <<>> THEN RoleValue["Ops"] ELSE env.s
        raw == Strip(v)
    IN  IF \E r \in Role : RoleValue[r] = raw
        THEN CHOOSE r \in Role : RoleValue[r] = raw
        ELSE "Ops"

\* features_for(role): _ROLE_FEATURES.get(role, set())
FeaturesFor(role) == IF role \in DOMAIN ROLE_FEATURES THEN ROLE_FEATURES[role] ELSE {}

\* can_access(feature, role)
CanAccess(feature, role) == feature \in FeaturesFor(role)

\* can_access(feature): role is None, so the current role is used
CanAccessCurrent(feature, env) == CanAccess(feature, GetCurrentRole(env))

\* permissions_for(role): _ROLE_PERMISSIONS.get(role, {Permission.view})
PermissionsFor(role) ==
    IF role \in DOMAIN ROLE_PERMISSIONS THEN ROLE_PERMISSIONS[role] ELSE {"view"}

\* has_permission(permission, role)
HasPermission(permission, role) == permission \in PermissionsFor(role)

\* has_permission(permission): role is None, so the current role is used
HasPermissionCurrent(permission, env) ==
    HasPermission(permission, GetCurrentRole(env))

-----------------------------------------------------------------------------
(* app.py *)

UserRole == {"Ops", "Manager", "Exec"}

BUSINESS_ROLE_TO_EDI_ROLE ==
    [Ops     |-> <<"o", "p", "e", "r", "a", "t", "o", "r">>,
     Manager |-> <<"a", "d", "m", "i", "n">>,
     Exec    |-> <<"v", "i", "e", "w", "e", "r">>]

PageLabels == <<"KPI Dashboard", "Incident Drill-down", "File Upload", "Chatbot">>

\* all_pages with every page open to every role
AllowedRolesAll(label) == {"Ops", "Manager", "Exec"}

\* Page.allowed_roles of the page with this label in all_pages
AllowedRoles(label) ==
    IF label = "File Upload" THEN {"Ops", "Manager"} ELSE {"Ops", "Manager", "Exec"}

\* visible_pages: the labels, in order, of the pages the role may see
VisiblePages(role) == SelectSeq(PageLabels, LAMBDA l : role \in AllowedRoles(l))

-----------------------------------------------------------------------------
(* ui/upload.py: helpers *)

W_completed == <<"c", "o", "m", "p", "l", "e", "t", "e", "d">>

W_complete == <<"c", "o", "m", "p", "l", "e", "t", "e">>

W_succeeded == <<"s", "u", "c", "c", "e", "e", "d", "e", "d">>

W_success == <<"s", "u", "c", "c", "e", "s", "s">>

W_failed == <<"f", "a", "i", "l", "e", "d">>

W_error == <<"e", "r", "r", "o", "r">>

W_cancelled == <<"c", "a", "n", "c", "e", "l", "l", "e", "d">>

W_canceled == <<"c", "a", "n", "c", "e", "l", "e", "d">>

W_processed == <<"p", "r", "o", "c", "e", "s", "s", "e", "d">>

W_done == <<"d", "o", "n", "e">>

W_resolved == <<"r", "e", "s", "o", "l", "v", "e", "d">>

W_exception == <<"e", "x", "c", "e", "p", "t", "i", "o", "n">>

W_rejected == <<"r", "e", "j", "e", "c", "t", "e", "d">>

W_processing == <<"p", "r", "o", "c", "e", "s", "s", "i", "n", "g">>

W_running == <<"r", "u", "n", "n", "i", "n", "g">>

W_in_progress == <<"i", "n", "_", "p", "r", "o", "g", "r", "e", "s", "s">>

W_in_dash_progress == <<"i", "n", "-", "p", "r", "o", "g", "r", "e", "s", "s">>

W_queued == <<"q", "u", "e", "u", "e", "d">>

W_pending == <<"p", "e", "n", "d", "i", "n", "g">>

W_unknown == <<"u", "n", "k", "n", "o", "w", "n">>

W_event == <<"e", "v", "e", "n", "t">>

\* the numeric value 1, in the unit of Num
One == 10 * 100

\* progress values handed to the progress bar are counted in units of
\* 1/(100*One), so that val/100 is exact for every val counted in 1/One
Full == 100 * One

Max(a, b) == IF a >= b THEN a ELSE b

Min(a, b) == IF a <= b THEN a ELSE b

\* max(0.0, min(1.0, x)) on a value in progress units
Clamp01(x) == Max(0, Min(Full, x))

\* no progress value (Python None where a float is expected)
NoProgress == 0 - 1

\* _extract_progress with the 0..100 scale dropped
ExtractProgressNoScale(status_resp) ==
    LET val == Get(status_resp, "progress")
    IN  IF IsNumber(val) THEN NumberOf(val) * 100 ELSE NoProgress

\* _extract_progress(status_resp), in progress units
ExtractProgress(status_resp) ==
    LET val == Get(status_resp, "progress")
    IN  IF IsNumber(val)
        THEN IF NumberOf(val) > One
             THEN Clamp01(NumberOf(val))        \* float(val) / 100.0
             ELSE Clamp01(NumberOf(val) * 100)  \* float(val)
        ELSE NoProgress

\* the status strings _is_done treats as terminal
DoneStatuses == {W_completed, W_complete, W_succeeded, W_success, W_failed,
                 W_error, W_cancelled}

\* (status_resp.get("status") or "")
StatusOrEmpty(status_resp) == PyOr(Get(status_resp, "status"), Str(<<>>))

\* _is_done raises AttributeError: .lower() on a truthy status that is no str
IsDoneRaises(status_resp) ==
    /\ Get(status_resp, "done") # Bool(TRUE)
    /\ ~IsStr(StatusOrEmpty(status_resp))

\* _is_done comparing the status without lower()
IsDoneCaseSensitive(status_resp) ==
    \/ Get(status_resp, "done") = Bool(TRUE)
    \/ /\ IsStr(StatusOrEmpty(status_resp))
       /\ StatusOrEmpty(status_resp).s \in DoneStatuses

\* _is_done(status_resp), where it does not raise
IsDone(status_resp) ==
    \/ Get(status_resp, "done") = Bool(TRUE)
    \/ /\ IsStr(StatusOrEmpty(status_resp))
       /\ Lower(StatusOrEmpty(status_resp).s) \in DoneStatuses

\* _pg_is_configured() that finds a password whatever the environment
PgIsConfiguredAlways(password) == TRUE

\* _pg_is_configured(): bool(cfg.get("password"))
PgIsConfigured(password) == password

\* (upload_resp.get("job") or {}): .get on it raises when it is no dict
JobOrEmpty(upload_resp) == PyOr(Get(upload_resp, "job"), EmptyDict)

\* _extract_poll_target raises AttributeError: job_id is falsy and "job" holds
\* a truthy value that is no dict
ExtractPollTargetRaises(upload_resp) ==
    /\ ~Truthy(Get(upload_resp, "job_id"))
    /\ ~IsDict(JobOrEmpty(upload_resp))

\* _extract_poll_target(upload_resp, client): the job_id
ExtractJobId(upload_resp) ==
    PyOr(Get(upload_resp, "job_id"),
         PyOr(Get(JobOrEmpty(upload_resp), "id"),
              Get(JobOrEmpty(upload_resp), "job_id")))

\* _extract_poll_target(upload_resp, client): the poll_url
ExtractPollUrl(upload_resp) ==
    PyOr(Get(upload_resp, "poll_url"), Get(upload_resp, "status_url"))

\* isinstance(v, str) and v.strip()
NonBlankStr(v) == IsStr(v) /\ Strip(v.s) # <<>>

StepNameKeys == <<"stage", "step", "step_name", "activity", "task", "event_type", "type">>

RECURSIVE FirstNonBlank(_, _, _)
\* the first key of keys[i..] whose value in event is a non-blank str, or 0
FirstNonBlank(event, keys, i) ==
    IF i > Len(keys) THEN 0
    ELSE IF NonBlankStr(Get(event, keys[i])) THEN i
    ELSE FirstNonBlank(event, keys, i + 1)

\* str(v) of a status value used as a step name
StrOf(v) == IF IsStr(v) THEN v.s ELSE <<"?">>

\* _infer_step_name(event)
InferStepName(event) ==
    LET i == FirstNonBlank(event, StepNameKeys, 1)
    IN  IF i > 0 THEN Strip(Get(event, StepNameKeys[i]).s)
        ELSE IF Get(event, "status") # None THEN StrOf(Get(event, "status"))
        ELSE W_event

\* _infer_status(event)
InferStatus(event) ==
    LET v  == PyOr(Get(event, "status"), PyOr(Get(event, "state"), Get(event, "result")))
        v2 == PyOr(Get(event, "event_type"), Get(event, "type"))
    IN  IF NonBlankStr(v) THEN Lower(Strip(v.s))
        ELSE IF NonBlankStr(v2) THEN Lower(Strip(v2.s))
        ELSE W_unknown

\* _status_bucket(status)
StatusBucket(status) ==
    LET s == Lower(status)
    IN  IF s \in {W_completed, W_complete, W_success, W_succeeded, W_processed,
                  W_done, W_resolved} THEN "ok"
        ELSE IF s \in {W_failed, W_error, W_exception, W_rejected, W_cancelled,
                       W_canceled} THEN "fail"
        ELSE IF s \in {W_processing, W_running, W_in_progress, W_in_dash_progress,
                       W_queued, W_pending} THEN "active"
        ELSE "unknown"

-----------------------------------------------------------------------------
(* ui/upload.py: the inputs of a run *)

W_parse == <<"p", "a", "r", "s", "e">>

W_validate == <<"v", "a", "l", "i", "d", "a", "t", "e">>

W_Processing == <<"P", "r", "o", "c", "e", "s", "s", "i", "n", "g">>

W_COMPLETED == <<"C", "O", "M", "P", "L", "E", "T", "E", "D">>

W_url == <<"h", "t", "t", "p", ":", "/", "/", "n", "8", "n", "/", "p", "o", "l", "l">>

W_job == <<"j", "o", "b", "-", "1">>

\* upload responses, as the client decodes them
UploadResponses ==
    { EmptyDict,
      Dict([job_id |-> Str(W_job)]),
      Dict([poll_url |-> Str(W_url)]),
      Dict([status_url |-> Str(W_url), result |-> Dict([summary |-> Str(W_done)])]),
      Dict([result |-> Dict([summary |-> Str(W_done)])]),
      Dict([job |-> Dict([id |-> Str(W_job)])]),
      Dict([job |-> Str(W_job)]) }

\* status responses of the poll URL, as the client decodes them
StatusResponses ==
    { EmptyDict,
      Dict([status |-> Str(W_processing), progress |-> Num(500)]),
      Dict([status |-> Str(W_Processing), progress |-> Num(20000)]),
      Dict([status |-> Str(W_completed), progress |-> Num(100000)]),
      Dict([status |-> Str(W_COMPLETED)]),
      Dict([status |-> Str(W_success)]),
      Dict([status |-> Str(W_failed), progress |-> Num(100)]),
      Dict([status |-> Str(W_processing), done |-> Bool(TRUE)]),
      Dict([status |-> Num(5000)]) }

Ev(stage, status) == Dict([stage |-> Str(stage), status |-> Str(status)])

\* document_events rows of the uploaded file, ordered by event_time
EventLogs ==
    { <<>>,
      <<Ev(W_parse, W_processing)>>,
      <<Ev(W_parse, W_completed), Ev(W_validate, W_processing)>>,
      <<Ev(W_parse, W_completed), Ev(W_validate, W_completed)>>,
      <<Ev(W_parse, W_completed), Ev(W_validate, W_processed)>>,
      <<Ev(W_parse, W_processing), Ev(W_parse, W_completed), Ev(W_validate, W_failed)>>,
      <<Dict([stage |-> Str(W_parse), status |-> Str(W_running), progress |-> Num(40000)])>>,
      <<Dict([stage |-> Str(W_parse), event_type |-> Str(W_COMPLETED)])>> }

-----------------------------------------------------------------------------
(* ui/upload.py: render *)

\* max_wait_s
MaxWaitS == 90

\* interval_s
IntervalS == 3

\* the most seconds one poll call adds to an iteration beyond the sleep
MaxLag == 1

\* getattr(client.config, "webhook_status", None): N8NWebhookConfig has no
\* such field
WebhookStatus == None

NoRun == [status |-> "none", use_db |-> FALSE, poll_url |-> None, job_id |-> None,
          uploads |-> 0, polls |-> 0, dbPolls |-> 0, elapsed |-> 0,
          last_status |-> EmptyDict, last_events |-> <<>>,
          shown |-> NoProgress, outcome |-> "none", final |-> FALSE]

RECURSIVE DistinctStages(_, _)
\* the distinct step names of events[i..], in order of first appearance
DistinctStages(events, seen) ==
    IF events = <<>> THEN seen
    ELSE LET s == InferStepName(Head(events))
         IN  DistinctStages(Tail(events),
                            IF \E j \in 1..Len(seen) : seen[j] = s
                            THEN seen ELSE Append(seen, s))

\* latest_by_stage[s] that keeps the first event of the stage
FirstOfStage(events, s) ==
    LET idx == {i \in 1..Len(events) : InferStepName(events[i]) = s}
    IN  events[CHOOSE i \in idx : \A j \in idx : j >= i]

\* latest_by_stage[s]: the last event of the stage
LatestOfStage(events, s) ==
    LET idx == {i \in 1..Len(events) : InferStepName(events[i]) = s}
    IN  events[CHOOSE i \in idx : \A j \in idx : j <= i]

\* the number of stages whose latest event is in bucket "ok"
OkStages(events) ==
    LET stages == DistinctStages(events, <<>>)
    IN  Cardinality({j \in 1..Len(stages) :
            StatusBucket(InferStatus(LatestOfStage(events, stages[j]))) = "ok"})

\* the database-mode progress p of a non-empty event list, in progress units
\* (the stage ratio is rounded down to the unit)
DbProgress(events) ==
    LET raw_p == Get(events[Len(events)], "progress")
    IN  IF IsNumber(raw_p)
        THEN IF NumberOf(raw_p) > One THEN NumberOf(raw_p) ELSE NumberOf(raw_p) * 100
        ELSE (OkStages(events) * Full) \div Max(1, Len(DistinctStages(events, <<>>)))

\* time.time() - started > float(max_wait_s)
TimedOut(elapsed) == elapsed > MaxWaitS

\* time.sleep that returns at once
SleepNone(elapsed, lag) == elapsed

\* the time after a poll that took lag seconds and time.sleep(interval_s)
AfterSleep(elapsed, lag) == elapsed + lag + IntervalS

-----------------------------------------------------------------------------
(* The script pass: app.main, then the page it dispatches to *)

\* _get_selected_role(): UserRole(raw), or UserRole.ops on ValueError
GetSelectedRole(raw) == IF raw \in UserRole THEN raw ELSE "Ops"

\* an end of pass that returns from render before the final result section
FinishNoFinal(r, outcome, final) == [r EXCEPT !.outcome = outcome, !.final = FALSE]

\* an end of pass that writes last_upload_run anew
FinishResetsStatus(r, outcome, final) ==
    [r EXCEPT !.outcome = outcome, !.final = final, !.status = "none"]

\* the end of a pass of render that leaves the polling loop (or never entered
\* it): the final result section is rendered when the loop was left
Finish(r, outcome, final) == [r EXCEPT !.outcome = outcome, !.final = final]

\* st.session_state before any page has written to it: no chat_messages, no
\* partners
NoSession == [chat_messages |-> None, partners |-> None]

\* nothing of a page other than upload is on the screen
NoView == [page |-> "none"]

\* main(): the sidebar selector holds role r, _set_edi_role_env writes EDI_ROLE,
\* and the page with label p, one of the visible pages, is dispatched to.
\* A new pass starts when the previous one has ended; last_upload_run stays in
\* the session.
MainRun(r, p) ==
    /\ pc = "idle"
    /\ \E i \in 1..Len(VisiblePages(GetSelectedRole(r))) :
            VisiblePages(GetSelectedRole(r))[i] = p
    /\ selected_role' = r
    /\ envEdiRole' = Str(BUSINESS_ROLE_TO_EDI_ROLE[GetSelectedRole(r)])
    /\ page' = p
    /\ pc' = "page"
    /\ run' = [NoRun EXCEPT !.status = run.status]
    /\ UNCHANGED <<envControlTowerRole, pgPassword>>
    /\ view' = NoView
    /\ UNCHANGED <<fnVars, session>>

\* the pages other than File Upload
RenderOtherPage ==
    /\ pc = "page"
    /\ page # "File Upload"
    /\ pc' = "idle"
    /\ UNCHANGED <<envControlTowerRole, envEdiRole, pgPassword, selected_role,
                   page, run>>
    /\ UNCHANGED <<fnVars, pageVars>>

\* ui.upload.render up to the polling loop: the permission gate, the file
\* chooser (uploaded), the button (pressed), client.file_upload (upload: a
\* decoded response, or Raise) and _extract_poll_target
RenderUpload(uploaded, pressed, upload) ==
    /\ pc = "page"
    /\ page = "File Upload"
    /\ LET use_db == PgIsConfigured(pgPassword)
           sent   == [run EXCEPT !.status = "starting", !.use_db = use_db,
                                 !.uploads = 1]
           ok     == [sent EXCEPT !.status = "uploaded",
                                  !.poll_url = ExtractPollUrl(upload),
                                  !.job_id = ExtractJobId(upload)]
       IN  IF ~CanAccess("upload", GetCurrentRole(envControlTowerRole))
           THEN run' = Finish(run, "Denied", FALSE) /\ pc' = "idle"
           ELSE IF ~uploaded
           THEN run' = Finish(run, "NoFile", FALSE) /\ pc' = "idle"
           ELSE IF ~pressed
           THEN run' = Finish([run EXCEPT !.use_db = use_db], "NotStarted", FALSE)
                /\ pc' = "idle"
           ELSE IF upload = Raise
           THEN run' = Finish(sent, "UploadFailed", FALSE) /\ pc' = "idle"
           ELSE IF ExtractPollTargetRaises(upload)
           THEN run' = Finish(sent, "Crashed", FALSE) /\ pc' = "idle"
           ELSE IF /\ Get(upload, "result") # None
                   /\ ~Truthy(ok.poll_url)
                   /\ ~Truthy(ok.job_id)
           THEN run' = Finish(ok, "ImmediateResult", FALSE) /\ pc' = "idle"
           ELSE run' = [ok EXCEPT !.elapsed = 0, !.shown = 0] /\ pc' = "loop"
    /\ UNCHANGED <<envControlTowerRole, envEdiRole, pgPassword, selected_role, page>>
    /\ UNCHANGED <<fnVars, pageVars>>

\* while True: the elapsed time exceeds max_wait_s
LoopTimeout ==
    /\ pc = "loop"
    /\ TimedOut(run.elapsed)
    /\ run' = Finish(run, "TimedOut", TRUE)
    /\ pc' = "idle"
    /\ UNCHANGED <<envControlTowerRole, envEdiRole, pgPassword, selected_role, page>>
    /\ UNCHANGED <<fnVars, pageVars>>

\* one iteration in database mode: _fetch_events_for_filename returns events
\* (or db = Raise), the call taking lag seconds
PollDatabase(db, lag) ==
    /\ pc = "loop"
    /\ ~TimedOut(run.elapsed)
    /\ run.use_db
    /\ IF ~PgIsConfigured(pgPassword) \/ db = Raise
       THEN run' = Finish([run EXCEPT !.dbPolls = IF PgIsConfigured(pgPassword)
                                                  THEN @ + 1 ELSE @],
                          "Failed", TRUE)
            /\ pc' = "idle"
       ELSE IF db.xs = <<>>
       THEN run' = [run EXCEPT !.dbPolls = @ + 1,
                               !.elapsed = AfterSleep(@, lag)]
            /\ pc' = "loop"
       ELSE LET last_event == db.xs[Len(db.xs)]
                polled == [run EXCEPT !.dbPolls = @ + 1,
                                      !.last_events = db.xs,
                                      !.last_status = last_event,
                                      !.shown = Clamp01(DbProgress(db.xs))]
            IN  IF IsDone(Dict([status |-> Str(InferStatus(last_event))]))
                THEN run' = Finish(polled, "Done", TRUE) /\ pc' = "idle"
                ELSE run' = [polled EXCEPT !.elapsed = AfterSleep(@, lag)]
                     /\ pc' = "loop"
    /\ UNCHANGED <<envControlTowerRole, envEdiRole, pgPassword, selected_role, page>>
    /\ UNCHANGED <<fnVars, pageVars>>

\* the URL the webhook-mode iteration polls: the response's poll_url, else the
\* configured status webhook, else none
PollTarget(r) ==
    IF Truthy(r.poll_url) THEN "poll_url"
    ELSE IF Truthy(WebhookStatus) THEN "status_webhook"
    ELSE "none"

\* one iteration in webhook mode with a URL to poll: client.call_webhook
\* returns resp (or resp = Raise), the call taking lag seconds
PollWebhook(resp, lag) ==
    /\ pc = "loop"
    /\ ~TimedOut(run.elapsed)
    /\ ~run.use_db
    /\ PollTarget(run) # "none"
    /\ IF resp = Raise
       THEN run' = Finish([run EXCEPT !.polls = @ + 1], "Failed", TRUE)
            /\ pc' = "idle"
       ELSE LET p == ExtractProgress(resp)
                polled == [run EXCEPT !.polls = @ + 1,
                                      !.status = "polling",
                                      !.last_status = resp,
                                      !.shown = IF p # NoProgress THEN p ELSE @]
            IN  IF IsDoneRaises(resp)
                THEN run' = Finish(polled, "Failed", TRUE) /\ pc' = "idle"
                ELSE IF IsDone(resp)
                THEN run' = Finish(polled, "Done", TRUE) /\ pc' = "idle"
                ELSE run' = [polled EXCEPT !.elapsed = AfterSleep(@, lag)]
                     /\ pc' = "loop"
    /\ UNCHANGED <<envControlTowerRole, envEdiRole, pgPassword, selected_role, page>>
    /\ UNCHANGED <<fnVars, pageVars>>

\* one iteration in webhook mode with nothing to poll: the loop is left with
\* the "Live status polling is unavailable" warning
PollUnavailable ==
    /\ pc = "loop"
    /\ ~TimedOut(run.elapsed)
    /\ ~run.use_db
    /\ PollTarget(run) = "none"
    /\ run' = Finish(run, "Unavailable", TRUE)
    /\ pc' = "idle"
    /\ UNCHANGED <<envControlTowerRole, envEdiRole, pgPassword, selected_role, page>>
    /\ UNCHANGED <<fnVars, pageVars>>

\* one iteration of the while loop
PollIteration ==
    \/ LoopTimeout
    \/ \E db \in {List(l) : l \in EventLogs} \cup {Raise}, lag \in 0..MaxLag : PollDatabase(db, lag)
    \/ \E resp \in StatusResponses \cup {Raise}, lag \in 0..MaxLag : PollWebhook(resp, lag)
    \/ PollUnavailable

\* the values CONTROL_TOWER_ROLE may hold when the process starts
StartRoleEnv == {Unset, Str(RoleValue["Exec"])}

Init ==
    /\ envControlTowerRole \in StartRoleEnv
    /\ envEdiRole = Unset
    /\ pgPassword \in BOOLEAN
    /\ selected_role = "Ops"
    /\ page = "none"
    /\ pc = "idle"
    /\ run = NoRun
    /\ session = NoSession
    /\ view = NoView
    /\ arg = None
    /\ res = None
    /\ op = "none"

Next ==
    \/ \E r \in UserRole, p \in {PageLabels[i] : i \in 1..Len(PageLabels)} :
           MainRun(r, p)
    \/ RenderOtherPage
    \/ \E uploaded \in BOOLEAN, pressed \in BOOLEAN,
          upload \in UploadResponses \cup {Raise} :
           RenderUpload(uploaded, pressed, upload)
    \/ PollIteration

Spec == Init /\ [][Next]_vars

\* the loop is a running script: an iteration that can be taken is taken
FairSpec == Spec /\ WF_vars(PollIteration)

-----------------------------------------------------------------------------
(* The role resolver on its own: get_current_role, has_permission, can_access, *)
(* permissions_for and features_for applied to one input.                      *)

\* the application state while a pure function is applied
AppIdle ==
    /\ envControlTowerRole = Unset
    /\ envEdiRole = Unset
    /\ pgPassword = FALSE
    /\ selected_role = "Ops"
    /\ page = "none"
    /\ pc = "idle"
    /\ run = NoRun
    /\ session = NoSession
    /\ view = NoView

\* words an environment value is built from: the role names and others
EnvWords == [Ops      |-> RoleValue["Ops"],
             Manager  |-> RoleValue["Manager"],
             Exec     |-> RoleValue["Exec"],
             viewer   |-> BUSINESS_ROLE_TO_EDI_ROLE["Exec"],
             operator |-> BUSINESS_ROLE_TO_EDI_ROLE["Ops"],
             guest    |-> <<"g", "u", "e", "s", "t">>,
             split    |-> <<"E", "x", " ", "e", "c">>,
             empty    |-> <<>>]

CaseVariants == {"same", "lower", "upper"}

InCase(word, cv) ==
    CASE cv = "same"  -> word
      [] cv = "lower" -> Lower(word)
      [] cv = "upper" -> ToUpper(word)

\* the longest run of whitespace put before and after a word
MaxPad == 1

RECURSIVE PadsUpTo(_)
\* the whitespace strings of at most n characters
PadsUpTo(n) ==
    IF n = 0 THEN {<<>>}
    ELSE PadsUpTo(n - 1) \cup
         {Append(q, c) : q \in {x \in PadsUpTo(n - 1) : Len(x) = n - 1}, c \in Whitespace}

\* CONTROL_TOWER_ROLE values, each with how it was built: the word, its
\* letter case and the whitespace around it; and the variable not set
EnvInputs ==
    {[kind |-> "env", word |-> wd, cv |-> cv, padded |-> (l \o r # <<>>),
      v |-> Str(l \o InCase(EnvWords[wd], cv) \o r)] :
        wd \in DOMAIN EnvWords, cv \in CaseVariants,
        l \in PadsUpTo(MaxPad), r \in PadsUpTo(MaxPad)}
    \cup {[kind |-> "env", word |-> "unset", cv |-> "same", padded |-> FALSE, v |-> Unset]}

\* role arguments passed explicitly: the members of Role and other strings
RoleInputs ==
    {[kind |-> "role", v |-> r] : r \in Role \cup {"viewer", "operator", "admin", "exec", ""}}

CallGetCurrentRole ==
    /\ op = "none"
    /\ arg.kind = "env"
    /\ res' = GetCurrentRole(arg.v)
    /\ op' = "get_current_role"
    /\ UNCHANGED <<arg, appVars, pageVars>>

\* has_permission(permission) with role None, or has_permission(permission, role)
CallHasPermission(permission) ==
    /\ op = "none"
    /\ res' = [permission |-> permission,
               allowed |-> IF arg.kind = "env"
                           THEN HasPermissionCurrent(permission, arg.v)
                           ELSE HasPermission(permission, arg.v)]
    /\ op' = "has_permission"
    /\ UNCHANGED <<arg, appVars, pageVars>>

\* can_access(feature) with role None, or can_access(feature, role)
CallCanAccess(feature) ==
    /\ op = "none"
    /\ res' = [feature |-> feature,
               allowed |-> IF arg.kind = "env"
                           THEN CanAccessCurrent(feature, arg.v)
                           ELSE CanAccess(feature, arg.v)]
    /\ op' = "can_access"
    /\ UNCHANGED <<arg, appVars, pageVars>>

CallPermissionsFor ==
    /\ op = "none"
    /\ arg.kind = "role"
    /\ res' = PermissionsFor(arg.v)
    /\ op' = "permissions_for"
    /\ UNCHANGED <<arg, appVars, pageVars>>

CallFeaturesFor ==
    /\ op = "none"
    /\ arg.kind = "role"
    /\ res' = FeaturesFor(arg.v)
    /\ op' = "features_for"
    /\ UNCHANGED <<arg, appVars, pageVars>>

InitRoles ==
    /\ AppIdle
    /\ arg \in EnvInputs \cup RoleInputs
    /\ res = None
    /\ op = "none"

NextRoles ==
    \/ CallGetCurrentRole
    \/ \E permission \in Permission : CallHasPermission(permission)
    \/ \E feature \in Feature : CallCanAccess(feature)
    \/ CallPermissionsFor
    \/ CallFeaturesFor

SpecRoles == InitRoles /\ [][NextRoles]_vars

-----------------------------------------------------------------------------
(* api/n8n_client.py: the response decoder.  A response body is a sequence   *)
(* of tokens; resp.json() is a parser of JSON over these tokens.             *)

\* string literals of a body: the token, the dict key and the characters
StrTokens == {"\"k\"", "\"j\""}

KeyOf(tok) == IF tok = "\"k\"" THEN "k" ELSE "j"

TokenOfKey(key) == IF key = "k" THEN "\"k\"" ELSE "\"j\""

\* the tokens a body is made of; "<html>" is not a token of JSON
Tokens == {"{", "}", "[", "]", ":", ",", "1", "true", "null", "\"k\"", "<html>"}

ParseFailed == [ok |-> FALSE, v |-> None, rest |-> <<>>]

Parsed(v, rest) == [ok |-> TRUE, v |-> v, rest |-> rest]

\* dict[key] = v
SetKey(d, key, v) == Dict((key :> v) @@ d.f)

RECURSIVE ParseValue(_)
RECURSIVE ParseElements(_, _)
RECURSIVE ParseMembers(_, _)

\* the value at the head of toks and the tokens after it
ParseValue(toks) ==
    IF toks = <<>> THEN ParseFailed
    ELSE LET h == Head(toks)
             t == Tail(toks)
         IN  CASE h = "1"        -> Parsed(Num(One), t)
               [] h = "true"     -> Parsed(Bool(TRUE), t)
               [] h = "null"     -> Parsed(None, t)
               [] h \in StrTokens -> Parsed(Str(<<KeyOf(h)>>), t)
               [] h = "["        ->
                    IF t # <<>> /\ Head(t) = "]"
                    THEN Parsed(List(<<>>), Tail(t))
                    ELSE ParseElements(t, <<>>)
               [] h = "{"        ->
                    IF t # <<>> /\ Head(t) = "}"
                    THEN Parsed(EmptyDict, Tail(t))
                    ELSE ParseMembers(t, EmptyDict)
               [] OTHER          -> ParseFailed

\* value ("," value)* "]"
ParseElements(toks, acc) ==
    LET e == ParseValue(toks)
    IN  IF ~e.ok \/ e.rest = <<>> THEN ParseFailed
        ELSE IF Head(e.rest) = "]" THEN Parsed(List(Append(acc, e.v)), Tail(e.rest))
        ELSE IF Head(e.rest) = "," THEN ParseElements(Tail(e.rest), Append(acc, e.v))
        ELSE ParseFailed

\* string ":" value ("," string ":" value)* "}"
ParseMembers(toks, acc) ==
    IF Len(toks) < 2 \/ Head(toks) \notin StrTokens \/ toks[2] # ":" THEN ParseFailed
    ELSE LET e == ParseValue(Tail(Tail(toks)))
         IN  IF ~e.ok \/ e.rest = <<>> THEN ParseFailed
             ELSE IF Head(e.rest) = "}"
             THEN Parsed(SetKey(acc, KeyOf(Head(toks)), e.v), Tail(e.rest))
             ELSE IF Head(e.rest) = ","
             THEN ParseMembers(Tail(e.rest), SetKey(acc, KeyOf(Head(toks)), e.v))
             ELSE ParseFailed

\* resp.json(): the value of the whole body, or Raise (ValueError)
RespJson(body) ==
    LET e == ParseValue(body)
    IN  IF e.ok /\ e.rest = <<>> THEN e.v ELSE Raise

\* _json_or_text returning the parsed payload whatever its type
JsonOrTextUnwrapped(body) ==
    IF body = <<>> THEN EmptyDict
    ELSE IF RespJson(body) = Raise THEN Dict([text |-> Str(body)])
    ELSE RespJson(body)

\* N8NClient._json_or_text(resp), body the tokens of resp.content
JsonOrText(body) ==
    IF body = <<>> THEN EmptyDict
    ELSE IF RespJson(body) = Raise THEN Dict([text |-> Str(body)])
    ELSE IF IsDict(RespJson(body)) THEN RespJson(body)
    ELSE Dict([data |-> RespJson(body)])

\* the longest body of arbitrary tokens
MaxBody == 3

RECURSIVE SeqsUpTo(_, _)
\* the sequences over S of at most n elements
SeqsUpTo(S, n) ==
    IF n = 0 THEN {<<>>}
    ELSE SeqsUpTo(S, n - 1) \cup
         {Append(q, c) : q \in {x \in SeqsUpTo(S, n - 1) : Len(x) = n - 1}, c \in S}

JsonScalars == {None, Num(One), Bool(TRUE), Str(<<"k">>)}

JsonLists == {List(xs) : xs \in SeqsUpTo(JsonScalars, 2)}

JsonFlat == JsonScalars \cup {List(<<>>), List(<<Num(One), None>>)}

JsonObjects ==
    {EmptyDict}
    \cup {Dict([k |-> a]) : a \in JsonFlat}
    \cup {Dict([j |-> a]) : a \in JsonFlat}
    \cup {Dict([k |-> a, j |-> b]) : a \in JsonFlat, b \in JsonFlat}
    \cup {Dict([k |-> Dict([j |-> a])]) : a \in JsonScalars}

\* the JSON values a backend serializes into a body
JsonValues ==
    JsonScalars \cup JsonLists \cup JsonObjects
    \cup {List(<<o, o>>) : o \in {Dict([k |-> a]) : a \in JsonScalars}}

RECURSIVE Serialize(_)
RECURSIVE SerializeList(_)
RECURSIVE SerializeMembers(_, _)

\* the JSON text of a value, as tokens (json.dumps)
Serialize(v) ==
    CASE v.t = "none" -> <<"null">>
      [] v.t = "num"  -> <<"1">>
      [] v.t = "bool" -> <<"true">>
      [] v.t = "str"  -> <<TokenOfKey(v.s[1])>>
      [] v.t = "list" -> <<"[">> \o SerializeList(v.xs) \o <<"]">>
      [] v.t = "dict" -> <<"{">> \o SerializeMembers(v, DOMAIN v.f) \o <<"}">>

SerializeList(xs) ==
    IF xs = <<>> THEN <<>>
    ELSE IF Len(xs) = 1 THEN Serialize(xs[1])
    ELSE Serialize(xs[1]) \o <<",">> \o SerializeList(Tail(xs))

SerializeMembers(d, keys) ==
    IF keys = {} THEN <<>>
    ELSE LET key == CHOOSE x \in keys : TRUE
             one == <<TokenOfKey(key), ":">> \o Serialize(d.f[key])
         IN  IF keys = {key} THEN one
             ELSE one \o <<",">> \o SerializeMembers(d, keys \ {key})

\* bodies, each with where it comes from: the JSON text of a value, or
\* arbitrary tokens
BodyInputs ==
    {[kind |-> "body", src |-> "json", v |-> v, body |-> Serialize(v)] : v \in JsonValues}
    \cup {[kind |-> "body", src |-> "raw", v |-> None, body |-> b] :
              b \in SeqsUpTo(Tokens, MaxBody)}

CallJsonOrText ==
    /\ op = "none"
    /\ arg.kind = "body"
    /\ res' = JsonOrText(arg.body)
    /\ op' = "_json_or_text"
    /\ UNCHANGED <<arg, appVars, pageVars>>

InitDecode ==
    /\ AppIdle
    /\ arg \in BodyInputs
    /\ res = None
    /\ op = "none"

NextDecode == CallJsonOrText

SpecDecode == InitDecode /\ [][NextDecode]_vars

-----------------------------------------------------------------------------
(* ui/tracker.py and ui/incidents.py: the response normalizers *)

\* [d for d in xs if isinstance(d, dict)]
DictsOf(xs) == SelectSeq(xs, IsDict)

RECURSIVE FirstListKey(_, _, _)
\* the first key of keys[i..] whose value in payload is a list, or 0
FirstListKey(payload, keys, i) ==
    IF i > Len(keys) THEN 0
    ELSE IF IsList(Get(payload, keys[i])) THEN i
    ELSE FirstListKey(payload, keys, i + 1)

RECURSIVE FirstFilledListKey(_, _, _)
\* the first key of keys[i..] whose value in payload is a list with elements
FirstFilledListKey(payload, keys, i) ==
    IF i > Len(keys) THEN 0
    ELSE IF IsList(Get(payload, keys[i])) /\ Get(payload, keys[i]).xs # <<>> THEN i
    ELSE FirstFilledListKey(payload, keys, i + 1)

\* the normalizers' body passing over empty lists
NormalizeByKeysSkipEmpty(payload, keys) ==
    IF IsList(payload) THEN DictsOf(payload.xs)
    ELSE IF IsDict(payload)
    THEN LET i == FirstFilledListKey(payload, keys, 1)
         IN  IF i > 0 THEN DictsOf(Get(payload, keys[i]).xs) ELSE <<>>
    ELSE <<>>

\* the common body of _normalize_incidents and _normalize_documents
NormalizeByKeys(payload, keys) ==
    IF IsList(payload) THEN DictsOf(payload.xs)
    ELSE IF IsDict(payload)
    THEN LET i == FirstListKey(payload, keys, 1)
         IN  IF i > 0 THEN DictsOf(Get(payload, keys[i]).xs) ELSE <<>>
    ELSE <<>>

IncidentKeys == <<"incidents", "data", "items", "results">>

DocumentKeys == <<"documents", "data", "items", "results">>

\* _normalize_incidents(payload)
NormalizeIncidents(payload) == NormalizeByKeys(payload, IncidentKeys)

\* _normalize_documents that does not look under "data"
NormalizeDocumentsNoData(payload) ==
    NormalizeByKeys(payload, <<"documents", "items", "results">>)

\* _normalize_documents(payload)
NormalizeDocuments(payload) == NormalizeByKeys(payload, DocumentKeys)

\* _flatten_list(val)
FlattenList(val) ==
    IF IsList(val) /\ Len(val.xs) = 1 /\ IsList(val.xs[1]) THEN val.xs[1].xs
    ELSE IF IsList(val) THEN val.xs
    ELSE <<>>

RECURSIVE MergeParts(_, _)
\* the loop of _merge_doc_fragments: a one-key dict sets its key, any other
\* dict updates merged, and what is no dict is skipped
MergeParts(parts, merged) ==
    IF parts = <<>> THEN merged
    ELSE MergeParts(Tail(parts),
                    IF IsDict(Head(parts)) THEN Dict(Head(parts).f @@ merged.f)
                    ELSE merged)

\* _merge_doc_fragments(items): the merged dict, or None
MergeDocFragments(items) ==
    IF FlattenList(items) = <<>> THEN None
    ELSE PyOr(MergeParts(FlattenList(items), EmptyDict), None)

RECURSIVE UnwrapN8nItems(_)
RECURSIVE UnwrapList(_)

\* the loop over a list payload of _unwrap_n8n_items
UnwrapList(xs) ==
    IF xs = <<>> THEN <<>>
    ELSE LET item == Head(xs)
             rest == UnwrapList(Tail(xs))
         IN  IF IsDict(item) /\ HasKey(item, "json") /\ IsDict(Get(item, "json"))
             THEN <<Get(item, "json")>> \o rest
             ELSE IF IsDict(item) /\ HasKey(item, "json") /\ IsList(Get(item, "json"))
             THEN IF Truthy(MergeDocFragments(Get(item, "json")))
                  THEN <<MergeDocFragments(Get(item, "json"))>> \o rest
                  ELSE rest
             ELSE IF IsDict(item) THEN <<item>> \o rest
             ELSE IF IsList(item) THEN UnwrapN8nItems(item) \o rest
             ELSE rest

UnwrapKeys == <<"documents", "items", "results">>

\* _unwrap_n8n_items(payload)
UnwrapN8nItems(payload) ==
    IF IsDict(payload) /\ HasKey(payload, "data")
    THEN UnwrapN8nItems(Get(payload, "data"))
    ELSE IF IsList(payload) THEN UnwrapList(payload.xs)
    ELSE IF IsDict(payload) /\ FirstListKey(payload, UnwrapKeys, 1) > 0
    THEN UnwrapN8nItems(Get(payload, UnwrapKeys[FirstListKey(payload, UnwrapKeys, 1)]))
    ELSE <<>>

W_doc == <<"D", "O", "C">>

\* record dicts: plain records and n8n execution items ({"json": ...})
RecordDicts ==
    { Dict([doc_id |-> Str(W_doc), status |-> Str(W_processed)]),
      Dict([id |-> Str(W_doc)]),
      Dict([id |-> Num(One), severity |-> None]),
      EmptyDict,
      Dict([json |-> Str(W_doc), id |-> Str(W_doc)]),
      Dict([json |-> Dict([doc_id |-> Str(W_doc)])]),
      Dict([json |-> List(<<Dict([doc_id |-> Str(W_doc)]), Dict([acks |-> List(<<>>)])>>)]),
      Dict([json |-> List(<<>>)]) }

Shapes == {"documents", "data", "incidents", "list"}

\* the payload that holds the records d1, d2 in the given shape
Shaped(shape, d1, d2) ==
    CASE shape = "list"      -> List(<<d1, d2>>)
      [] shape = "documents" -> Dict([documents |-> List(<<d1, d2>>)])
      [] shape = "data"      -> Dict([data |-> List(<<d1, d2>>)])
      [] shape = "incidents" -> Dict([incidents |-> List(<<d1, d2>>)])

PayloadInputs ==
    {[kind |-> "payload", shape |-> sh, d1 |-> d1, d2 |-> d2,
      payload |-> Shaped(sh, d1, d2)] :
        sh \in Shapes, d1 \in RecordDicts, d2 \in RecordDicts}

CallUnwrapN8nItems ==
    /\ op = "none"
    /\ arg.kind = "payload"
    /\ res' = UnwrapN8nItems(arg.payload)
    /\ op' = "_unwrap_n8n_items"
    /\ UNCHANGED <<arg, appVars, pageVars>>

CallNormalizeDocuments ==
    /\ op = "none"
    /\ arg.kind = "payload"
    /\ res' = NormalizeDocuments(arg.payload)
    /\ op' = "_normalize_documents"
    /\ UNCHANGED <<arg, appVars, pageVars>>

CallNormalizeIncidents ==
    /\ op = "none"
    /\ arg.kind = "payload"
    /\ res' = NormalizeIncidents(arg.payload)
    /\ op' = "_normalize_incidents"
    /\ UNCHANGED <<arg, appVars, pageVars>>

\* what a payload holds under one key: an empty list, records among other
\* items, a str, a dict
KeyValues ==
    {List(<<>>), List(<<Dict([id |-> Str(W_doc)]), Str(W_doc)>>), Str(W_doc)}

NormalizerKeys == {"incidents", "documents", "data", "items", "results"}

\* dict payloads over the keys the normalizers try, and payloads that are no
\* dict
KeyedPayloads ==
    UNION {{Dict(f) : f \in [S -> KeyValues]} : S \in SUBSET NormalizerKeys}
    \cup {None, Str(W_doc), Num(One), List(<<Dict([id |-> Str(W_doc)]), Str(W_doc)>>)}

KeyedInputs ==
    {[kind |-> "payload", shape |-> "keyed", payload |-> payload] :
        payload \in KeyedPayloads}

InitKeys ==
    /\ AppIdle
    /\ arg \in KeyedInputs
    /\ res = None
    /\ op = "none"

NextKeys ==
    \/ CallNormalizeDocuments
    \/ CallNormalizeIncidents

SpecKeys == InitKeys /\ [][NextKeys]_vars

InitNormalize ==
    /\ AppIdle
    /\ arg \in PayloadInputs
    /\ res = None
    /\ op = "none"

NextNormalize ==
    \/ CallUnwrapN8nItems
    \/ CallNormalizeDocuments
    \/ CallNormalizeIncidents

SpecNormalize == InitNormalize /\ [][NextNormalize]_vars

-----------------------------------------------------------------------------
(* utils/live_status.py: get_live_status, called directly *)

\* the methods class N8NClient defines
N8NClientMethods == {"_abs_url", "_json_or_text", "_post_json", "call_webhook",
                     "chat_query", "file_upload", "kpi_metrics", "incident_list",
                     "document_tracker"}

\* the latest reading of the clock among the calls
MaxClock == 5

W_up == <<"u", "p">>

\* what a health_check of a client object that has one may return
HealthResults == {Bool(TRUE), Bool(FALSE), None, Num(One), Num(0), Str(W_up),
                  Str(<<>>), EmptyDict}

\* the n8n_client argument: None, an N8NClient, or an object of another class
\* whose health_check returns a value or raises; and the reading of the clock
ClientInputs ==
    {[kind |-> "client", client |-> c, health |-> None, now |-> n] :
        c \in {"None", "N8NClient"}, n \in 0..MaxClock}
    \cup {[kind |-> "client", client |-> "other", health |-> h, now |-> n] :
            h \in HealthResults \cup {Raise}, n \in 0..MaxClock}

\* n8n_client.health_check(): AttributeError on an N8NClient, which defines no
\* such method
HealthCheck(a) ==
    IF a.client \in {"None", "N8NClient"}
    THEN (IF "health_check" \in N8NClientMethods THEN Bool(TRUE) ELSE Raise)
    ELSE a.health

\* get_live_status(n8n_client): a LiveStatus, or Raise when the probe raises
GetLiveStatus(a) ==
    LET n8n_ok == HealthCheck(a)
    IN  IF n8n_ok = Raise THEN Raise
        ELSE [t |-> "LiveStatus", ok |-> Truthy(n8n_ok), checked_at |-> a.now,
              details |-> Dict([n8n |-> Dict([ok |-> n8n_ok])])]

CallGetLiveStatus ==
    /\ op = "none"
    /\ res' = GetLiveStatus(arg)
    /\ op' = "get_live_status"
    /\ UNCHANGED <<arg, appVars, pageVars>>

InitLive ==
    /\ AppIdle
    /\ arg \in ClientInputs
    /\ res = None
    /\ op = "none"

NextLive == CallGetLiveStatus

SpecLive == InitLive /\ [][NextLive]_vars

-----------------------------------------------------------------------------
(* str() and repr() of the values the pages search and display *)

Digits == <<"0", "1", "2", "3", "4", "5", "6", "7", "8", "9">>

RECURSIVE IntStr(_)
\* str(n) of an int n >= 0
IntStr(n) == IF n < 10 THEN <<Digits[n + 1]>>
             ELSE IntStr(n \div 10) \o <<Digits[(n % 10) + 1]>>

\* the keys of the dicts of the catalogues, in the order the dicts hold them
KeyOrder == <<"id", "incident_id", "doc_id", "severity", "status", "summary",
              "title", "partner", "created_at", "details", "transaction_set",
              "impact", "next_steps", "json", "error", "count", "text", "data",
              "answer", "findings">>

\* the characters of each key
KeyChars ==
    [id |-> <<"i", "d">>,
     incident_id |-> <<"i", "n", "c", "i", "d", "e", "n", "t", "_", "i", "d">>,
     doc_id |-> <<"d", "o", "c", "_", "i", "d">>,
     severity |-> <<"s", "e", "v", "e", "r", "i", "t", "y">>,
     status |-> <<"s", "t", "a", "t", "u", "s">>,
     summary |-> <<"s", "u", "m", "m", "a", "r", "y">>,
     title |-> <<"t", "i", "t", "l", "e">>,
     partner |-> <<"p", "a", "r", "t", "n", "e", "r">>,
     created_at |-> <<"c", "r", "e", "a", "t", "e", "d", "_", "a", "t">>,
     details |-> <<"d", "e", "t", "a", "i", "l", "s">>,
     transaction_set |-> <<"t", "r", "a", "n", "s", "a", "c", "t", "i", "o", "n", "_", "s", "e", "t">>,
     impact |-> <<"i", "m", "p", "a", "c", "t">>,
     next_steps |-> <<"n", "e", "x", "t", "_", "s", "t", "e", "p", "s">>,
     json |-> <<"j", "s", "o", "n">>,
     error |-> <<"e", "r", "r", "o", "r">>,
     count |-> <<"c", "o", "u", "n", "t">>,
     text |-> <<"t", "e", "x", "t">>,
     data |-> <<"d", "a", "t", "a">>,
     answer |-> <<"a", "n", "s", "w", "e", "r">>,
     findings |-> <<"f", "i", "n", "d", "i", "n", "g", "s">>]

RECURSIVE PyRepr(_), ReprList(_, _), ReprItems(_, _, _)
\* repr(v); whole numbers of the catalogues are ints
PyRepr(v) ==
    CASE v.t = "none" -> <<"N", "o", "n", "e">>
      [] v.t = "bool" -> IF v.b THEN <<"T", "r", "u", "e">>
                         ELSE <<"F", "a", "l", "s", "e">>
      [] v.t = "num"  -> IntStr(v.n \div One)
      [] v.t = "str"  -> <<"'">> \o v.s \o <<"'">>
      [] v.t = "list" -> <<"[">> \o ReprList(v.xs, 1) \o <<"]">>
      [] v.t = "dict" -> <<"{">> \o ReprItems(v.f, 1, TRUE) \o <<"}">>

ReprList(xs, i) ==
    IF i > Len(xs) THEN <<>>
    ELSE (IF i > 1 THEN <<",",
        " ">> ELSE <<>>) \o PyRepr(xs[i]) \o ReprList(xs, i + 1)

ReprItems(f, k, first) ==
    IF k > Len(KeyOrder) THEN <<>>
    ELSE IF KeyOrder[k] \notin DOMAIN f THEN ReprItems(f, k + 1, first)
    ELSE (IF first THEN <<>> ELSE <<",", " ">>)
         \o <<"'">> \o KeyChars[KeyOrder[k]] \o <<"'", ":", " ">>
         \o PyRepr(f[KeyOrder[k]])
         \o ReprItems(f, k + 1, FALSE)

\* str(v)
PyStr(v) == IF IsStr(v) THEN v.s ELSE PyRepr(v)

\* q in s
IsSubstring(q, s) ==
    \E i \in 0..(Len(s) - Len(q)) : SubSeq(s, i + 1, i + Len(q)) = q

\* d.get(k, default)
GetOr(d, k, default) == IF k \in DOMAIN d.f THEN d.f[k] ELSE default

-----------------------------------------------------------------------------
(* ui/incidents.py: render *)

\* _demo_incidents()
DemoIncidents ==
    << Dict([id |-> Str(<<"I", "N", "C", "-", "1", "0", "0", "7">>),
             severity |-> Str(<<"h", "i", "g", "h">>),
             status |-> Str(<<"o", "p", "e", "n">>),
             summary |-> Str(<<"9", "9", "7", " ", "f", "u", "n", "c", "t",
                 "i", "o", "n", "a", "l", " ", "a", "c", "k", " ", "f", "a",
                 "i", "l", "u", "r", "e", "s", " ", "f", "o", "r", " ", "A",
                 "C", "M", "E">>),
             created_at |-> Str(<<"2", "0", "2", "5", "-", "1", "2", "-", "1",
                 "7", "T", "0", "8", ":", "1", "2", ":", "0", "0", "Z">>),
             details |-> Dict([partner |-> Str(<<"A", "C", "M", "E">>),
                               transaction_set |-> Str(<<"8", "5", "6">>),
                               impact |-> Str(<<"S", "h", "i", "p", "m", "e",
                                   "n", "t", "s", " ", "n", "o", "t", " ",
                                   "a", "c", "k", "n", "o", "w", "l", "e",
                                   "d", "g", "e", "d", " ", "w", "i", "t",
                                   "h", "i", "n", " ", "S", "L", "A", " ",
                                   "w", "i", "n", "d", "o", "w">>),
                               next_steps |-> List(<< Str(<<"V", "a", "l",
                                   "i", "d", "a", "t", "e", " ", "s", "e",
                                   "g", "m", "e", "n", "t", " ", "m", "a",
                                   "p", "p", "i", "n", "g">>),
                                                      Str(<<"R", "e", "p",
                                                          "r", "o", "c", "e",
                                                          "s", "s", " ", "l",
                                                          "a", "s", "t", " ",
                                                          "b", "a", "t", "c",
                                                          "h">>),
                                                      Str(<<"N", "o", "t",
                                                          "i", "f", "y", " ",
                                                          "p", "a", "r", "t",
                                                          "n", "e",
                                                          "r">>) >>)])]),
       Dict([id |-> Str(<<"I", "N", "C", "-", "1", "0", "0", "6">>),
             severity |-> Str(<<"m", "e", "d", "i", "u", "m">>),
             status |-> Str(<<"m", "o", "n", "i", "t", "o", "r", "i", "n",
                 "g">>),
             summary |-> Str(<<"I", "n", "t", "e", "r", "m", "i", "t", "t",
                 "e", "n", "t", " ", "w", "e", "b", "h", "o", "o", "k", " ",
                 "l", "a", "t", "e", "n", "c", "y", " ", "s", "p", "i", "k",
                 "e", "s">>),
             created_at |-> Str(<<"2", "0", "2", "5", "-", "1", "2", "-", "1",
                 "6", "T", "2", "1", ":", "4", "0", ":", "0", "0", "Z">>),
             details |-> Dict([impact |-> Str(<<"D", "e", "l", "a", "y", "e",
                 "d", " ", "p", "r", "o", "c", "e", "s", "s", "i", "n", "g",
                 ";", " ", "n", "o", " ", "d", "a", "t", "a", " ", "l", "o",
                 "s", "s", " ", "o", "b", "s", "e", "r", "v", "e",
                 "d">>)])]) >>

\* the test of the search filter: q in str(field).lower() for one of the fields
IncidentMatches(i, q) ==
    \/ IsSubstring(q, Lower(PyStr(GetOr(i, "id", Str(<<>>)))))
    \/ IsSubstring(q, Lower(PyStr(GetOr(i, "summary", GetOr(i, "title", Str(<<>>))))))
    \/ IsSubstring(q, Lower(PyStr(GetOr(i, "status", Str(<<>>)))))
    \/ IsSubstring(q, Lower(PyStr(GetOr(i, "severity", Str(<<>>)))))
    \/ IsSubstring(q, Lower(PyStr(GetOr(i, "partner", GetOr(i, "details", Str(<<>>))))))

\* a search box that filters nothing
FilterNone(incidents, query) == incidents

\* if query: incidents = [i for i in incidents if ...]
FilterIncidents(incidents, query) ==
    IF ~Truthy(query) THEN incidents
    ELSE LET Test(i) == IncidentMatches(i, Lower(Strip(query.s)))
         IN  SelectSeq(incidents, Test)

\* rendering the expander of incident i raises AttributeError: _incident_title
\* calls .upper() on a truthy severity that is no str, and the Partner metric
\* calls .get on a "details" value that is no dict
IncidentRaises(i) ==
    \/ Truthy(Get(i, "severity")) /\ ~IsStr(Get(i, "severity"))
    \/ HasKey(i, "details") /\ ~IsDict(Get(i, "details"))

\* the webhook calls of a pass that fetches through an st.cache_data function:
\* none on a cache hit
\* a fetch that calls the webhook once more when the call raised
CallsOfRetry(fetch) == IF fetch.hit THEN 0 ELSE IF fetch.v = Raise THEN 2 ELSE 1

CallsOf(fetch) == IF fetch.hit THEN 0 ELSE 1

\* render(): the search text, the demo toggle, and what _fetch_incidents gives
\* (fetch.v: the cached or returned payload, or Raise from the webhook call)
IncidentsPass(query, use_demo, fetch) ==
    LET calls == IF use_demo THEN 0 ELSE CallsOf(fetch)
        base  == [page |-> "incidents", query |-> query, demo |-> use_demo,
                  fetch |-> fetch, calls |-> calls, db |-> 0, hint |-> FALSE,
                  listed |-> <<>>]
    IN  IF ~use_demo /\ fetch.v = Raise
        THEN [base EXCEPT !.hint = TRUE] @@ [outcome |-> "Error"]
        ELSE LET incidents == FilterIncidents(
                                  IF use_demo THEN DemoIncidents
                                  ELSE NormalizeIncidents(fetch.v), query)
                 bad == {k \in 1..Len(incidents) : IncidentRaises(incidents[k])}
             IN  IF incidents = <<>> THEN base @@ [outcome |-> "Empty"]
                 ELSE IF bad = {}
                 THEN [base EXCEPT !.listed = incidents] @@ [outcome |-> "Listed"]
                 ELSE [base EXCEPT !.listed =
                            SubSeq(incidents, 1, (CHOOSE k \in bad : \A j \in bad : k <= j) - 1)]
                      @@ [outcome |-> "Raised"]

\* what the search box may hold
Queries == {Str(<<>>), Str(<<" ", " ">>), Str(<<"z", "z", "z">>), Str(<<"I",
    "N", "C", "-", "1", "0", "0", "7">>), Str(<<" ", "A", "c", "m", "e",
    " ">>)}

W_inc == <<"I", "N", "C", "-", "1">>

\* incident_list responses, as the client decodes them
IncidentPayloads ==
    { EmptyDict,
      Dict([incidents |-> List(<<>>)]),
      Dict([incidents |-> List(DemoIncidents)]),
      Dict([data |-> List(<<Dict([id |-> Str(W_inc), title |-> Str(<<"z", "z",
          "z">>)]), None>>)]),
      Dict([incidents |-> Str(<<"n", "o", "n", "e">>)]),
      Dict([text |-> Str(<<"<", "h", "t", "m", "l", ">">>)]),
      Dict([incidents |-> List(<<Dict([id |-> Str(W_inc), severity |-> Num(3 * One)])>>)]),
      Dict([incidents |-> List(<<Dict([id |-> Str(W_inc), details |-> Str(<<"A",
          "C", "M", "E">>)])>>)]) }

\* what an st.cache_data fetch gives: a cached payload without a call, or the
\* outcome of one webhook call
Fetches(payloads) ==
    {[hit |-> TRUE, v |-> v] : v \in payloads}
    \cup {[hit |-> FALSE, v |-> v] : v \in payloads \cup {Raise}}

RenderIncidents(query, use_demo, fetch) ==
    /\ view' = IncidentsPass(query, use_demo, fetch)
    /\ UNCHANGED <<session, appVars, fnVars>>

-----------------------------------------------------------------------------
(* ui/kpis.py: render *)

\* _FALLBACK_PARTNERS
FallbackPartners ==
    <<Str(<<"A", "m", "a", "z", "o", "n", " ", "R", "e", "t", "a", "i",
        "l">>), Str(<<"W", "a", "l", "m", "a", "r", "t", " ", "I", "n", "c",
        ".">>), Str(<<"H", "o", "m", "e", " ", "D", "e", "p", "o", "t">>),
      Str(<<"D", "H", "L", " ", "S", "u", "p", "p", "l", "y", " ", "C", "h",
          "a", "i", "n">>)>>

\* _demo_metrics(partner)
DemoMetrics(partner) ==
    Dict([partner |-> partner,
          kpis |-> Dict([shipments_today |-> Num(128 * One),
                         edi_docs_today |-> Num(542 * One),
                         ack_rate_pct |-> Num(97800),
                         avg_processing_sec |-> Num(18400)]),
          sla_compliance |-> Dict([compliant |-> Num(92 * One), breached |-> Num(8 * One)]),
          top_errors |-> List(<<
              Dict([error |-> Str(<<"9", "9", "7", " ", "r", "e", "j", "e",
                  "c", "t", "e", "d">>), count |-> Num(12 * One)]),
              Dict([error |-> Str(<<"M", "i", "s", "s", "i", "n", "g", " ",
                  "P", "O", " ", "n", "u", "m", "b", "e",
                  "r">>), count |-> Num(9 * One)]),
              Dict([error |-> Str(<<"I", "n", "v", "a", "l", "i", "d", " ",
                  "s", "e", "g", "m", "e", "n",
                  "t">>), count |-> Num(6 * One)])>>),
          as_of |-> Str(<<"d", "e", "m", "o">>)])

\* a str of decimal digits (the numeric strings of the catalogues)
IsDigits(s) == s # <<>> /\ \A i \in 1..Len(s) : \E d \in 1..10 : Digits[d] = s[i]

\* float(v) raises TypeError or ValueError
FloatRaises(v) == ~(IsNumber(v) \/ (IsStr(v) /\ IsDigits(v.s)))

\* int(v) raises TypeError or ValueError
IntRaises(v) == ~(IsNumber(v) \/ (IsStr(v) /\ IsDigits(v.s)))

RECURSIVE UnwrapN8nPayload(_)
\* _unwrap_n8n_payload(payload)
UnwrapN8nPayload(payload) ==
    IF IsDict(payload)
    THEN IF HasKey(payload, "output") /\ IsDict(Get(payload, "output"))
         THEN Get(payload, "output")
         ELSE IF HasKey(payload, "data") THEN UnwrapN8nPayload(Get(payload, "data"))
         ELSE payload
    ELSE IF IsList(payload) /\ payload.xs # <<>>
    THEN LET first == payload.xs[1]
         IN  IF IsDict(first) /\ HasKey(first, "output") /\ IsDict(Get(first, "output"))
             THEN Get(first, "output")
             ELSE IF IsDict(first) THEN first
             ELSE EmptyDict
    ELSE EmptyDict

\* _normalize_sla(sla) raises: a float() of the first shape that matches
NormalizeSlaRaises(sla) ==
    IF IsDict(sla) /\ HasKey(sla, "compliant") /\ HasKey(sla, "breached")
    THEN FloatRaises(Get(sla, "compliant")) \/ FloatRaises(Get(sla, "breached"))
    ELSE IF IsDict(sla) /\ HasKey(sla, "compliant_pct") /\ HasKey(sla, "breached_pct")
    THEN FloatRaises(Get(sla, "compliant_pct")) \/ FloatRaises(Get(sla, "breached_pct"))
    ELSE IF IsList(sla)
    THEN \E i \in 1..Len(sla.xs) :
            /\ IsDict(sla.xs[i])
            /\ HasKey(sla.xs[i], "label") /\ HasKey(sla.xs[i], "value")
            /\ FloatRaises(Get(sla.xs[i], "value"))
    ELSE FALSE

\* _normalize_sla_chart(payload) raises
NormalizeSlaChartRaises(payload) ==
    IF IsDict(payload) /\ IsList(Get(payload, "labels")) /\ IsList(Get(payload, "values"))
    THEN \E i \in 1..Len(Get(payload, "values").xs) :
            FloatRaises(Get(payload, "values").xs[i])
    ELSE NormalizeSlaRaises(payload)

\* _normalize_top_errors(errors) raises: int(count) of an entry that has a
\* label and a count
NormalizeTopErrorsRaises(errors) ==
    /\ IsList(errors)
    /\ \E i \in 1..Len(errors.xs) :
        LET e == errors.xs[i]
            label == IF IsDict(e)
                     THEN PyOr(Get(e, "error"), PyOr(Get(e, "label"), Get(e, "name")))
                     ELSE None
            count == IF IsDict(e)
                     THEN PyOr(Get(e, "count"), PyOr(Get(e, "value"), Get(e, "n")))
                     ELSE None
        IN  label # None /\ count # None /\ IntRaises(count)

\* the charts of the unwrapped metrics raise
KpiChartsRaise(metrics) ==
    \/ NormalizeSlaChartRaises(PyOr(Get(metrics, "sla_chart"), Get(metrics, "sla_compliance")))
    \/ NormalizeTopErrorsRaises(PyOr(Get(metrics, "error_chart"), Get(metrics, "top_errors")))

\* the partner list of the pass and whether the lookup opened a database
\* connection: the session's list if it has one; else
\* _fetch_partners_from_postgres (cached; raising without a connection when
\* psycopg or the password is missing), else the fallback list
PartnerLookup(partners, psycopg, password, lookup) ==
    IF Truthy(partners)
    THEN [partners |-> partners, db |-> 0, stored |-> FALSE, how |-> "session"]
    ELSE IF lookup.hit
    THEN [partners |-> lookup.v, db |-> 0, stored |-> TRUE, how |-> "cache"]
    ELSE IF ~psycopg \/ ~PgIsConfigured(password)
    THEN [partners |-> List(FallbackPartners), db |-> 0, stored |-> FALSE,
          how |-> "not_configured"]
    ELSE IF lookup.v = Raise
    THEN [partners |-> List(FallbackPartners), db |-> 1, stored |-> FALSE,
          how |-> "query_failed"]
    ELSE [partners |-> lookup.v, db |-> 1, stored |-> TRUE, how |-> "query"]

\* render(): plotly installed, the partner lookup, the date range in order, the
\* demo toggle, and what _fetch_metrics gives
KpisPass(s, plotly, psycopg, password, lookup, dates_ok, use_demo, fetch) ==
    LET found == PartnerLookup(PyOr(s.partners, List(<<>>)), psycopg, password, lookup)
        calls == IF use_demo THEN 0 ELSE CallsOf(fetch)
        base  == [page |-> "kpis", demo |-> use_demo, fetch |-> fetch,
                  calls |-> 0, db |-> found.db, hint |-> FALSE,
                  partners |-> found.partners, how |-> found.how]
        metrics == UnwrapN8nPayload(IF use_demo THEN DemoMetrics(found.partners.xs[1])
                                    ELSE fetch.v)
    IN  IF ~plotly
        THEN [base EXCEPT !.db = 0, !.partners = None, !.how = "none"]
             @@ [outcome |-> "NoPlotly"]
        ELSE IF ~dates_ok THEN base @@ [outcome |-> "BadDates"]
        ELSE IF ~use_demo /\ fetch.v = Raise
        THEN [base EXCEPT !.calls = calls, !.hint = TRUE] @@ [outcome |-> "Error"]
        ELSE IF KpiChartsRaise(metrics)
        THEN [base EXCEPT !.calls = calls] @@ [outcome |-> "Raised"]
        ELSE [base EXCEPT !.calls = calls] @@ [outcome |-> "Shown"]

\* st.session_state["partners"] after the pass: the list the database gave,
\* then the "partners" list of the metrics
KpisSession(s, plotly, psycopg, password, lookup, dates_ok, use_demo, fetch) ==
    LET found == PartnerLookup(PyOr(s.partners, List(<<>>)), psycopg, password, lookup)
        afterLookup == IF found.stored THEN [s EXCEPT !.partners = found.partners] ELSE s
        metrics == UnwrapN8nPayload(IF use_demo THEN DemoMetrics(found.partners.xs[1])
                                    ELSE fetch.v)
    IN  IF ~plotly THEN s
        ELSE IF ~dates_ok \/ (~use_demo /\ fetch.v = Raise) THEN afterLookup
        ELSE IF IsList(Get(metrics, "partners"))
        THEN [afterLookup EXCEPT !.partners = Get(metrics, "partners")]
        ELSE afterLookup

W_acme == <<"A", "C", "M", "E">>

\* what the partner lookup gives: a cached list, or the outcome of the query
PartnerLookups ==
    {[hit |-> TRUE, v |-> List(<<Str(W_acme)>>)],
     [hit |-> FALSE, v |-> List(<<Str(W_acme)>>)],
     [hit |-> FALSE, v |-> Raise]}

\* kpi_metrics responses, as the client decodes them
KpiPayloads ==
    { EmptyDict,
      Dict([kpis |-> Dict([total_docs |-> Num(5 * One)]),
            sla_compliance |-> Dict([compliant |-> Num(92 * One), breached |-> Num(8 * One)]),
            partners |-> List(<<Str(W_acme)>>)]),
      Dict([data |-> List(<<Dict([output |-> Dict([kpis |-> Str(<<"n", "/",
          "a">>)])])>>)]),
      Dict([text |-> Str(<<"<", "h", "t", "m", "l", ">">>)]),
      Dict([sla_compliance |-> Dict([compliant |-> Str(<<"n", "/",
          "a">>), breached |-> Num(8 * One)])]),
      Dict([sla_chart |-> Dict([labels |-> List(<<Str(<<"o",
          "k">>)>>), values |-> List(<<None>>)])]),
      Dict([top_errors |-> List(<<Dict([error |-> Str(<<"9", "9", "7", " ",
          "r", "e", "j", "e", "c", "t", "e", "d">>),
                                        count |-> Str(<<"m", "a", "n",
                                            "y">>)])>>)]),
      Dict([top_errors |-> List(<<Dict([error |-> Str(<<"9", "9", "7", " ",
          "r", "e", "j", "e", "c", "t", "e", "d">>),
                                        count |-> Str(<<"1",
                                            "2">>)]), Str(<<"x">>)>>)]) }

\* _fetch_metrics: a payload cached within the ttl, or the outcome of the call
KpiFetches ==
    {[hit |-> TRUE, v |-> EmptyDict]}
    \cup {[hit |-> FALSE, v |-> v] : v \in KpiPayloads \cup {Raise}}

RenderKpis(plotly, psycopg, lookup, dates_ok, use_demo, fetch) ==
    /\ lookup.hit => (psycopg /\ PgIsConfigured(pgPassword))
    /\ view' = KpisPass(session, plotly, psycopg, pgPassword, lookup, dates_ok,
                        use_demo, fetch)
    /\ session' = KpisSession(session, plotly, psycopg, pgPassword, lookup, dates_ok,
                              use_demo, fetch)
    /\ UNCHANGED <<appVars, fnVars>>

-----------------------------------------------------------------------------
(* ui/tracker.py: render *)

\* _demo_documents()
DemoDocuments ==
    <<Dict([doc_id |-> Str(<<"D", "O", "C", "-", "0", "0", "0", "1", "8",
        "4">>), partner |-> Str(<<"A", "C", "M", "E", " ", "M", "a", "n", "u",
        "f", "a", "c", "t", "u", "r", "i", "n", "g">>),
            type |-> Str(<<"8", "5", "0">>), status |-> Str(W_processed),
            received_at |-> Str(<<"2", "0", "2", "5", "-", "1", "2", "-", "1",
                "7", "T", "0", "9", ":", "2", "2", ":", "1", "1", "Z">>),
            last_update |-> Str(<<"2", "0", "2", "5", "-", "1", "2", "-", "1",
                "7", "T", "0", "9", ":", "2", "2", ":", "3", "4", "Z">>),
            notes |-> Str(<<"M", "a", "t", "c", "h", "e", "d", " ", "P", "O",
                " ", "a", "n", "d", " ", "c", "r", "e", "a", "t", "e", "d",
                " ", "s", "h", "i", "p", "m", "e", "n", "t", ".">>)]),
      Dict([doc_id |-> Str(<<"D", "O", "C", "-", "0", "0", "0", "1", "8",
          "5">>), partner |-> Str(<<"A", "C", "M", "E", " ", "M", "a", "n",
          "u", "f", "a", "c", "t", "u", "r", "i", "n", "g">>),
            type |-> Str(<<"8", "5", "6">>), status |-> Str(W_exception),
            received_at |-> Str(<<"2", "0", "2", "5", "-", "1", "2", "-", "1",
                "7", "T", "1", "0", ":", "0", "3", ":", "0", "2", "Z">>),
            last_update |-> Str(<<"2", "0", "2", "5", "-", "1", "2", "-", "1",
                "7", "T", "1", "0", ":", "0", "4", ":", "1", "0", "Z">>),
            notes |-> Str(<<"M", "i", "s", "s", "i", "n", "g", " ", "r", "e",
                "q", "u", "i", "r", "e", "d", " ", "s", "e", "g", "m", "e",
                "n", "t", " ", "R", "E", "F", "*", "B", "M", ".">>)]),
      Dict([doc_id |-> Str(<<"D", "O", "C", "-", "0", "0", "0", "1", "8",
          "6">>), partner |-> Str(<<"A", "C", "M", "E", " ", "M", "a", "n",
          "u", "f", "a", "c", "t", "u", "r", "i", "n", "g">>),
            type |-> Str(<<"9", "9", "7">>), status |-> Str(W_queued),
            received_at |-> Str(<<"2", "0", "2", "5", "-", "1", "2", "-", "1",
                "7", "T", "1", "0", ":", "5", "5", ":", "1", "9", "Z">>),
            last_update |-> Str(<<"2", "0", "2", "5", "-", "1", "2", "-", "1",
                "7", "T", "1", "0", ":", "5", "5", ":", "1", "9", "Z">>),
            notes |-> Str(<<"A", "w", "a", "i", "t", "i", "n", "g", " ", "d",
                "o", "w", "n", "s", "t", "r", "e", "a", "m", " ", "w", "o",
                "r", "k", "f", "l", "o", "w", ".">>)])>>

\* the documents of a fetched payload: _unwrap_n8n_items, and
\* _normalize_documents when that gives none
DocumentsOf(payload) ==
    IF UnwrapN8nItems(payload) # <<>> THEN UnwrapN8nItems(payload)
    ELSE NormalizeDocuments(payload)

\* a render that shows the last of the documents
LastDocument(documents) == documents[Len(documents)]

\* doc = documents[0]: if several documents arrive, the first is shown
FirstDocument(documents) == documents[1]

\* render(): the document id typed, the demo toggle, and what _fetch_documents
\* gives
TrackerPass(doc_id, use_demo, fetch) ==
    LET calls == IF use_demo THEN 0 ELSE CallsOf(fetch)
        base  == [page |-> "tracker", doc_id |-> doc_id, demo |-> use_demo,
                  fetch |-> fetch, calls |-> 0, db |-> 0, hint |-> FALSE,
                  doc |-> None]
        documents == IF use_demo THEN DemoDocuments ELSE DocumentsOf(fetch.v)
    IN  IF ~use_demo /\ Strip(doc_id) = <<>>
        THEN base @@ [outcome |-> "Prompt"]
        ELSE IF ~use_demo /\ fetch.v = Raise
        THEN [base EXCEPT !.calls = calls, !.hint = TRUE] @@ [outcome |-> "Error"]
        ELSE IF documents = <<>>
        THEN [base EXCEPT !.calls = calls] @@ [outcome |-> "Empty"]
        ELSE [base EXCEPT !.calls = calls, !.doc = FirstDocument(documents)]
                 @@ [outcome |-> "Shown"]

\* what is typed into the Document ID box
DocIds == {<<>>, <<" ">>, <<"D", "O", "C", "-", "0", "3", "0">>}

\* the records of the tracker responses
TrackerRecords ==
    { Dict([doc_id |-> Str(W_doc), status |-> Str(W_processed)]),
      EmptyDict,
      Dict([json |-> Dict([doc_id |-> Str(W_doc)])]),
      Dict([json |-> List(<<Dict([doc_id |-> Str(W_doc)]), Dict([acks |-> List(<<>>)])>>)]) }

\* document_tracker responses, as the client decodes them
TrackerPayloads ==
    { EmptyDict,
      Dict([text |-> Str(<<"<", "h", "t", "m", "l", ">">>)]),
      Dict([data |-> Str(W_doc)]),
      Dict([documents |-> Dict([doc_id |-> Str(W_doc)])]),
      Dict([doc_id |-> Str(W_doc), pipeline |-> Str(<<"n", "/", "a">>)]) }
    \cup {Shaped(sh, d1, EmptyDict) : sh \in {"data", "documents"}, d1 \in TrackerRecords}

RenderTracker(doc_id, use_demo, fetch) ==
    /\ view' = TrackerPass(doc_id, use_demo, fetch)
    /\ UNCHANGED <<session, appVars, fnVars>>

InitPages ==
    /\ envControlTowerRole = Unset
    /\ envEdiRole = Unset
    /\ pgPassword \in BOOLEAN
    /\ selected_role = "Ops"
    /\ page = "none"
    /\ pc = "idle"
    /\ run = NoRun
    /\ session = NoSession
    /\ view = NoView
    /\ arg = None
    /\ res = None
    /\ op = "none"

NextPages ==
    \/ \E query \in Queries, use_demo \in BOOLEAN, fetch \in Fetches(IncidentPayloads) :
           RenderIncidents(query, use_demo, fetch)
    \/ \E plotly \in BOOLEAN, psycopg \in BOOLEAN, lookup \in PartnerLookups,
          dates_ok \in BOOLEAN, use_demo \in BOOLEAN, fetch \in KpiFetches :
           RenderKpis(plotly, psycopg, lookup, dates_ok, use_demo, fetch)
    \/ \E doc_id \in DocIds, use_demo \in BOOLEAN, fetch \in Fetches(TrackerPayloads) :
           RenderTracker(doc_id, use_demo, fetch)

SpecPages == InitPages /\ [][NextPages]_vars

-----------------------------------------------------------------------------
(* ui/chatbot.py: render *)

\* the greeting _init_chat_state stores
Greeting ==
    Dict([role |-> Str(<<"a", "s", "s", "i", "s", "t", "a", "n", "t">>),
          content |-> Str(<<"A", "s", "k", " ", "m", "e", " ", "a", "b", "o",
              "u", "t", " ", "d", "o", "c", "u", "m", "e", "n", "t", "s", ",",
              " ", "s", "h", "i", "p", "m", "e", "n", "t", "s", ",", " ", "S",
              "L", "A", "s", ",", " ", "K", "P", "I", "s", ",", " ", "o", "r",
              " ", "i", "n", "c", "i", "d", "e", "n", "t", "s", ".">>)])

\* _init_chat_state that stores the greeting on every pass
InitChatStateAlways(s) == [s EXCEPT !.chat_messages = List(<<Greeting>>)]

\* _init_chat_state(): the greeting, if the session has no chat_messages
InitChatState(s) ==
    IF s.chat_messages = None THEN [s EXCEPT !.chat_messages = List(<<Greeting>>)]
    ELSE s

AnswerKeys == <<"answer", "response", "message", "text">>

RECURSIVE ExtractAnswerFrom(_, _)
\* the loop of _extract_answer from key i on
ExtractAnswerFrom(payload, i) ==
    IF i > Len(AnswerKeys) THEN PyStr(payload)
    ELSE LET val == Get(payload, AnswerKeys[i])
         IN  IF IsStr(val) /\ Strip(val.s) # <<>> THEN Strip(val.s)
             ELSE ExtractAnswerFrom(payload, i + 1)

\* _extract_answer(payload)
ExtractAnswer(payload) == ExtractAnswerFrom(payload, 1)

\* _render_structured_payload(payload): what it returns
RenderStructuredPayload(payload) ==
    ~(/\ Get(payload, "summary") = None
      /\ Get(payload, "findings") = None
      /\ Get(payload, "details") = None)

\* str(e) of the exception the client raised
ErrorText == <<"t", "i", "m", "e", "d", " ", "o", "u", "t">>

UserMessage(text) == Dict([role |-> Str(<<"u", "s", "e",
    "r">>), content |-> Str(text)])

AssistantMessage(text) == Dict([role |-> Str(<<"a", "s", "s", "i", "s", "t",
    "a", "n", "t">>), content |-> Str(text)])

\* the messages appended for the stripped prompt and what chat_query gave
\* (resp: the decoded response, or Raise)
ChatAppended(prompt, resp) ==
    IF resp = Raise
    THEN <<UserMessage(prompt),
           AssistantMessage(<<"C", "h", "a", "t", " ", "r", "e", "q", "u",
               "e", "s", "t", " ", "f", "a", "i", "l", "e", "d", ":",
               " ">> \o ErrorText)>>
    ELSE IF IsDict(resp) /\ RenderStructuredPayload(resp)
    THEN <<UserMessage(prompt),
           Dict([role |-> Str(<<"a", "s", "s", "i", "s", "t", "a", "n",
               "t">>),
                 content |-> IF IsStr(Get(resp, "summary")) THEN Get(resp, "summary")
                             ELSE Str(<<"R", "e", "s", "p", "o", "n", "s",
                                 "e", " ", "r", "e", "c", "e", "i", "v", "e",
                                 "d", ".">>),
                 payload |-> resp])>>
    ELSE <<UserMessage(prompt),
           AssistantMessage(ExtractAnswer(IF IsDict(resp) THEN resp
                                          ELSE Dict([data |-> resp])))>>

\* not prompt, tested before prompt.strip() only
PromptIsBlankNoStrip(prompt) == IF prompt = None THEN TRUE ELSE prompt.s = <<>>

\* not prompt, before and after prompt.strip()
PromptIsBlank(prompt) == IF prompt = None THEN TRUE ELSE Strip(prompt.s) = <<>>

\* st.session_state after render(): prompt is what st.chat_input returns
ChatbotSession(s, prompt, resp) ==
    LET s0 == InitChatState(s)
    IN  IF PromptIsBlank(prompt) THEN s0
        ELSE [s0 EXCEPT !.chat_messages =
                  List(s0.chat_messages.xs \o ChatAppended(Strip(prompt.s), resp))]

\* what the pass showed
ChatbotPass(s, prompt, resp) ==
    [page |-> "chatbot", prompt |-> prompt, resp |-> resp, demo |-> FALSE,
     calls |-> IF PromptIsBlank(prompt) THEN 0 ELSE 1,
     db |-> 0, hint |-> FALSE,
     shown |-> Len(InitChatState(s).chat_messages.xs),
     outcome |-> IF PromptIsBlank(prompt) THEN "Idle"
                 ELSE IF resp = Raise THEN "Error"
                 ELSE IF IsDict(resp) /\ RenderStructuredPayload(resp) THEN "Structured"
                 ELSE "Answered"]

\* the prompts submitted in one session
MaxPrompts == 2

\* the prompts of the session so far
PromptsIn(s) ==
    IF s.chat_messages = None THEN 0 ELSE (Len(s.chat_messages.xs) - 1) \div 2

\* what st.chat_input returns: None, or the text submitted
Prompts == {None, Str(<<" ">>), Str(<<" ", "h", "i", " ">>), Str(<<"s", "l",
    "a">>)}

\* chat_query responses, as the client decodes them
ChatResponses ==
    { Dict([answer |-> Str(<<" ", "o", "k", " ">>)]),
      Dict([text |-> Str(<<" ">>)]),
      Dict([summary |-> Str(<<"2", " ", "l", "a", "t",
          "e">>), details |-> List(<<EmptyDict>>),
            findings |-> List(<<>>)]),
      Dict([summary |-> Num(3 * One)]),
      Dict([data |-> List(<<Num(One)>>)]) }

RenderChatbot(prompt, resp) ==
    /\ ~PromptIsBlank(prompt) => PromptsIn(session) < MaxPrompts
    /\ session' = ChatbotSession(session, prompt, resp)
    /\ view' = ChatbotPass(session, prompt, resp)
    /\ UNCHANGED <<appVars, fnVars>>

NextChat ==
    \E prompt \in Prompts, resp \in ChatResponses \cup {Raise} :
        RenderChatbot(prompt, resp)

SpecChat == InitPages /\ [][NextChat]_vars

-----------------------------------------------------------------------------
(* the four webhook pages of one session while the webhooks answer or fail *)

\* a well-formed response of each webhook
OkIncidents == Dict([incidents |-> List(DemoIncidents)])

OkMetrics == DemoMetrics(Str(W_acme))

OkDocuments == Dict([documents |-> List(DemoDocuments)])

OkAnswer == Dict([answer |-> Str(<<" ", "o", "k", " ">>)])

NextOutage ==
    \/ \E query \in {Str(<<>>), Str(<<"z", "z", "z">>)}, use_demo \in BOOLEAN,
          fetch \in Fetches({OkIncidents}) :
           RenderIncidents(query, use_demo, fetch)
    \/ \E plotly \in BOOLEAN, lookup \in PartnerLookups, dates_ok \in BOOLEAN,
          use_demo \in BOOLEAN, fetch \in Fetches({OkMetrics}) :
           RenderKpis(plotly, TRUE, lookup, dates_ok, use_demo, fetch)
    \/ \E doc_id \in DocIds, use_demo \in BOOLEAN, fetch \in Fetches({OkDocuments}) :
           RenderTracker(doc_id, use_demo, fetch)
    \/ \E prompt \in {None, Str(<<" ", "h", "i",
        " ">>)}, resp \in {OkAnswer, Raise} :
           RenderChatbot(prompt, resp)

SpecOutage == InitPages /\ [][NextOutage]_vars

-----------------------------------------------------------------------------
(* api/n8n_client.py: the webhook operations, each through _post_json *)

\* N8NClient(): timeout_s
TimeoutS == 15

WebhookOps ==
    {"chat_query", "file_upload", "kpi_metrics", "incident_list", "document_tracker",
     "call_webhook"}

\* file_upload sends multipart form data (files), the others a JSON payload
SendsFiles(name) == name = "file_upload"

\* what the network gives to one HTTP request: a response status, or no
\* response at all
StatusReply(code) == [err |-> "none", status |-> code]

NoReply(why) == [err |-> why, status |-> 0]

\* responses requests follows to their Location
RedirectReplies == {StatusReply(302), StatusReply(307)}

\* responses and failures that end the exchange
FinalReplies ==
    {StatusReply(200), StatusReply(204), StatusReply(304), StatusReply(404),
     StatusReply(500), NoReply("timeout"), NoReply("refused")}

\* the redirects followed in one call
MaxHops == 2

\* the replies of one exchange: redirects, then a final reply
Exchanges ==
    {Append(hops, last) : hops \in SeqsUpTo(RedirectReplies, MaxHops),
                          last \in FinalReplies}

RECURSIVE SessionPost(_, _, _, _, _)
\* self._session.post(url, ..., timeout=self.timeout_s): requests sends the
\* POST and follows redirects (302 with GET, 307 with the same method); gives
\* the requests sent and the last reply
SessionPost(net, i, method, posts, gets) ==
    LET sent_posts == IF method = "POST" THEN posts + 1 ELSE posts
        sent_gets  == IF method = "GET" THEN gets + 1 ELSE gets
    IN  IF net[i] \in RedirectReplies /\ i < Len(net)
        THEN SessionPost(net, i + 1,
                         IF net[i].status = 307 THEN method ELSE "GET",
                         sent_posts, sent_gets)
        ELSE [http_posts |-> sent_posts, http_gets |-> sent_gets, last |-> net[i]]

\* resp.raise_for_status() that raises on server errors only
RaiseForStatusServerOnly(status) == status >= 500 /\ status < 600

\* resp.raise_for_status() raises HTTPError
RaiseForStatus(status) == status >= 400 /\ status < 600

\* _post_json(url, payload, files=...): one self._session.post, then
\* raise_for_status and _json_or_text of the last response
PostJson(name, net, body) ==
    LET sent == SessionPost(net, 1, "POST", 0, 0)
        base == [session_posts |-> 1, timeout |-> TimeoutS, files |-> SendsFiles(name),
                 http_posts |-> sent.http_posts, http_gets |-> sent.http_gets,
                 status |-> sent.last.status]
    IN  IF sent.last.err # "none" THEN base @@ [value |-> Raise]
        ELSE IF RaiseForStatus(sent.last.status) THEN base @@ [value |-> Raise]
        ELSE base @@ [value |-> JsonOrText(body)]

\* response bodies
ClientBodies ==
    {<<>>, <<"<html>">>, Serialize(EmptyDict), Serialize(Dict([k |-> Num(One)])),
     Serialize(List(<<Num(One)>>))}

RequestInputs ==
    {[kind |-> "request", name |-> name, net |-> net, body |-> body] :
        name \in WebhookOps, net \in Exchanges, body \in ClientBodies}

CallWebhookOp ==
    /\ op = "none"
    /\ arg.kind = "request"
    /\ res' = PostJson(arg.name, arg.net, arg.body)
    /\ op' = arg.name
    /\ UNCHANGED <<arg, appVars, pageVars>>

InitClient ==
    /\ AppIdle
    /\ arg \in RequestInputs
    /\ res = None
    /\ op = "none"

NextClient == CallWebhookOp

SpecClient == InitClient /\ [][NextClient]_vars

-----------------------------------------------------------------------------
(* ui/chatbot.py and ui/tracker.py: _is_effectively_empty_list *)

RECURSIVE ChatAllNegligible(_)
\* the loop of chatbot._is_effectively_empty_list: None, then an empty dict,
\* then a blank str is skipped; anything else returns False
ChatAllNegligible(xs) ==
    IF xs = <<>> THEN TRUE
    ELSE IF Head(xs) = None THEN ChatAllNegligible(Tail(xs))
    ELSE IF IsDict(Head(xs)) /\ DOMAIN Head(xs).f = {} THEN ChatAllNegligible(Tail(xs))
    ELSE IF IsStr(Head(xs)) /\ Strip(Head(xs).s) = <<>> THEN ChatAllNegligible(Tail(xs))
    ELSE FALSE

RECURSIVE ChatAllNegligibleNoBlank(_)
\* the loop of chatbot._is_effectively_empty_list without the blank-str case
ChatAllNegligibleNoBlank(xs) ==
    IF xs = <<>> THEN TRUE
    ELSE IF Head(xs) = None THEN ChatAllNegligibleNoBlank(Tail(xs))
    ELSE IF IsDict(Head(xs)) /\ DOMAIN Head(xs).f = {}
    THEN ChatAllNegligibleNoBlank(Tail(xs))
    ELSE FALSE

\* chatbot._is_effectively_empty_list(val) that keeps blank strs
ChatIsEffectivelyEmptyListNoBlank(val) ==
    IF ~IsList(val) \/ Len(val.xs) = 0 THEN TRUE ELSE ChatAllNegligibleNoBlank(val.xs)

\* chatbot._is_effectively_empty_list(val)
ChatIsEffectivelyEmptyList(val) ==
    IF ~IsList(val) \/ Len(val.xs) = 0 THEN TRUE ELSE ChatAllNegligible(val.xs)

RECURSIVE TrackerAllNegligible(_)
\* the loop of tracker._is_effectively_empty_list: an empty dict, then None,
\* then a blank str is skipped; anything else returns False
TrackerAllNegligible(xs) ==
    IF xs = <<>> THEN TRUE
    ELSE IF IsDict(Head(xs)) /\ DOMAIN Head(xs).f = {} THEN TrackerAllNegligible(Tail(xs))
    ELSE IF Head(xs) = None THEN TrackerAllNegligible(Tail(xs))
    ELSE IF IsStr(Head(xs)) /\ Strip(Head(xs).s) = <<>> THEN TrackerAllNegligible(Tail(xs))
    ELSE FALSE

\* tracker._is_effectively_empty_list(val)
TrackerIsEffectivelyEmptyList(val) ==
    IF ~IsList(val) \/ Len(val.xs) = 0 THEN TRUE ELSE TrackerAllNegligible(val.xs)

\* the longest list given to the predicate
MaxItems == 2

\* list elements: the negligible ones and others, falsy ones among them
ListItems ==
    {None, EmptyDict, Str(<<>>), Str(<<" ">>), Str(<<" ",
        "x">>), Dict([a |-> Num(One)]),
     Num(0), Bool(FALSE), List(<<>>)}

ValueInputs ==
    {[kind |-> "value", v |-> List(xs)] : xs \in SeqsUpTo(ListItems, MaxItems)}
    \cup {[kind |-> "value", v |-> v] : v \in {None, Str(<<>>), EmptyDict, Num(One)}}

CallChatIsEffectivelyEmptyList ==
    /\ op = "none"
    /\ arg.kind = "value"
    /\ res' = Bool(ChatIsEffectivelyEmptyList(arg.v))
    /\ op' = "chatbot._is_effectively_empty_list"
    /\ UNCHANGED <<arg, appVars, pageVars>>

CallTrackerIsEffectivelyEmptyList ==
    /\ op = "none"
    /\ arg.kind = "value"
    /\ res' = Bool(TrackerIsEffectivelyEmptyList(arg.v))
    /\ op' = "tracker._is_effectively_empty_list"
    /\ UNCHANGED <<arg, appVars, pageVars>>

InitEmpty ==
    /\ AppIdle
    /\ arg \in ValueInputs
    /\ res = None
    /\ op = "none"

NextEmpty ==
    \/ CallChatIsEffectivelyEmptyList
    \/ CallTrackerIsEffectivelyEmptyList

SpecEmpty == InitEmpty /\ [][NextEmpty]_vars

-----------------------------------------------------------------------------
(* ui/upload.py: the progress value of one poll, called directly *)

\* the longest event list of one poll
MaxEvents == 3

\* document_events rows: two stages in several statuses, rows with a numeric
\* progress, a row with no stage and a row with an event_type only
EventRows ==
    {Ev(stage, status) : stage \in {W_parse, W_validate},
                         status \in {W_completed, W_processing, W_failed, W_COMPLETED}}
    \cup {Dict([stage |-> Str(W_parse), status |-> Str(W_running), progress |-> Num(40000)]),
          Dict([stage |-> Str(W_parse), status |-> Str(W_running),
                progress |-> Num(0 - 2000)]),
          Dict([status |-> Str(W_processed)]),
          Dict([stage |-> Str(W_validate), event_type |-> Str(W_COMPLETED)])}

EventInputs ==
    {[kind |-> "events", events |-> events] :
        events \in {e \in SeqsUpTo(EventRows, MaxEvents) : e # <<>>}}

\* "progress" values of a status response, numbers in thousandths
ProgressValues ==
    {None, Str(<<"5", "0">>), Bool(TRUE), Bool(FALSE), List(<<Num(One)>>),
     Num(0 - 500), Num(0), Num(250), Num(One), Num(One + 1), Num(20 * One),
     Num(100 * One), Num(150 * One)}

StatusInputs ==
    {[kind |-> "status", status_resp |-> Dict([status |-> Str(W_processing)])]}
    \cup {[kind |-> "status",
           status_resp |-> Dict([status |-> Str(W_processing), progress |-> v])] :
              v \in ProgressValues}

\* progress_bar.progress(max(0.0, min(1.0, float(p)))) of the database branch
CallDbProgress ==
    /\ op = "none"
    /\ arg.kind = "events"
    /\ res' = Clamp01(DbProgress(arg.events))
    /\ op' = "db_progress"
    /\ UNCHANGED <<arg, appVars, pageVars>>

CallExtractProgress ==
    /\ op = "none"
    /\ arg.kind = "status"
    /\ res' = ExtractProgress(arg.status_resp)
    /\ op' = "_extract_progress"
    /\ UNCHANGED <<arg, appVars, pageVars>>

InitProgress ==
    /\ AppIdle
    /\ arg \in EventInputs \cup StatusInputs
    /\ res = None
    /\ op = "none"

NextProgress ==
    \/ CallDbProgress
    \/ CallExtractProgress

SpecProgress == InitProgress /\ [][NextProgress]_vars

-----------------------------------------------------------------------------
(* app.main dispatching to the upload page and to the KPI dashboard *)

\* a pass of ui.kpis.render, the page main() dispatched to
KpiPage ==
    /\ pc = "page"
    /\ page = "KPI Dashboard"
    /\ \E plotly \in BOOLEAN, psycopg \in BOOLEAN, lookup \in PartnerLookups,
          dates_ok \in BOOLEAN, use_demo \in BOOLEAN, fetch \in Fetches({OkMetrics}) :
           RenderKpis(plotly, psycopg, lookup, dates_ok, use_demo, fetch)

NextApp ==
    \/ Next
    \/ KpiPage

SpecApp == Init /\ [][NextApp]_vars

-----------------------------------------------------------------------------
(* Properties *)

\* main has run at least once in this process
MainHasRun == page # "none"

\* C1: after main has run _set_edi_role_env for the selected role R,
\* get_current_role() returns the Role that corresponds to R.
C1_CurrentRoleIsSelectedRole ==
    MainHasRun => GetCurrentRole(envControlTowerRole) = selected_role

\* C2: while Exec is selected, the permission gate of ui.upload.render denies
\* (render stops at the permission-denied message) and the pass has issued no
\* file_upload call, no status poll and no database query.
C2_ExecIsDeniedUpload ==
    (MainHasRun /\ selected_role = "Exec") =>
        /\ ~CanAccess("upload", GetCurrentRole(envControlTowerRole))
        /\ run.uploads = 0 /\ run.polls = 0 /\ run.dbPolls = 0

\* an environment value that is no role name, whatever its case and padding
UnrecognizedEnv == arg.kind = "env" /\ arg.word \notin Role \cup {"unset"}

\* C3: for a recognized role, permissions_for, features_for, has_permission
\* and can_access answer from the configured tables, which are total over
\* Role; for an unrecognized environment string, has_permission and can_access
\* without a role answer from the default role's (Ops) sets.
C3_ConfiguredSets ==
    /\ DOMAIN ROLE_PERMISSIONS = Role
    /\ DOMAIN ROLE_FEATURES = Role
    /\ (op = "permissions_for" /\ arg.v \in Role) => res = ROLE_PERMISSIONS[arg.v]
    /\ (op = "features_for" /\ arg.v \in Role) => res = ROLE_FEATURES[arg.v]
    /\ (op = "has_permission" /\ arg.kind = "role" /\ arg.v \in Role) =>
            res.allowed = (res.permission \in ROLE_PERMISSIONS[arg.v])
    /\ (op = "can_access" /\ arg.kind = "role" /\ arg.v \in Role) =>
            res.allowed = (res.feature \in ROLE_FEATURES[arg.v])
    /\ (op = "has_permission" /\ UnrecognizedEnv) =>
            res.allowed = (res.permission \in ROLE_PERMISSIONS["Ops"])
    /\ (op = "can_access" /\ UnrecognizedEnv) =>
            res.allowed = (res.feature \in ROLE_FEATURES["Ops"])

\* C3 witness: an unrecognized environment string is given the default role's
\* upload permission
C3_Witness ==
    /\ op = "has_permission"
    /\ arg.kind = "env" /\ arg.word = "guest"
    /\ res.permission = "upload" /\ res.allowed

\* a role value that is no recognized role: passed explicitly, or an
\* unrecognized environment string
UnknownRole == (arg.kind = "role" /\ arg.v \notin Role) \/ UnrecognizedEnv

\* C4: an unknown role resolves to the view-only permission set: only view is
\* permitted, and the upload feature is not accessible.
C4_UnknownRoleIsViewOnly ==
    /\ (op = "has_permission" /\ UnknownRole) =>
            res.allowed = (res.permission = "view")
    /\ (op = "can_access" /\ UnknownRole /\ res.feature = "upload") => ~res.allowed

\* C5: get_current_role returns the role whose name the environment value
\* equals up to letter case and surrounding whitespace, and the default role
\* for every other value.
C5_CaseAndWhitespaceNormalized ==
    op = "get_current_role" =>
        res = IF arg.word \in Role THEN arg.word ELSE "Ops"

\* C5, amended: get_current_role returns the role whose name the environment
\* value equals up to surrounding whitespace (letter case must match), and the
\* default role Ops for every other value and for an unset variable.
C5_WhitespaceNormalizedOnly ==
    op = "get_current_role" =>
        res = IF arg.word \in Role /\ arg.cv = "same" THEN arg.word ELSE "Ops"

\* C5 witness: " Exec " resolves to Exec
C5_Witness ==
    /\ op = "get_current_role"
    /\ arg.word = "Exec" /\ arg.cv = "same" /\ arg.padded
    /\ res = "Exec"

\* C6: _json_or_text always returns a JSON object: {} for an empty body, the
\* object itself for the text of a JSON object, {"data": v} for the text of any
\* other JSON value v, {"text": body} for a body that is no JSON.
C6_DecoderReturnsObject ==
    op = "_json_or_text" =>
        /\ IsDict(res)
        /\ arg.body = <<>> => res = EmptyDict
        /\ (arg.src = "json" /\ IsDict(arg.v)) => res = arg.v
        /\ (arg.src = "json" /\ ~IsDict(arg.v)) => res = Dict([data |-> arg.v])
        /\ (\E i \in 1..Len(arg.body) : arg.body[i] = "<html>") =>
                res = Dict([text |-> Str(arg.body)])

\* C6 witness: the text of a two-element list is wrapped under "data"
C6_Witness ==
    /\ op = "_json_or_text"
    /\ arg.src = "json" /\ IsList(arg.v) /\ Len(arg.v.xs) = 2
    /\ res = Dict([data |-> arg.v])

\* a record the tracker unwraps as an n8n execution item
HoldsJson(d) == HasKey(d, "json") /\ (IsDict(Get(d, "json")) \/ IsList(Get(d, "json")))

\* C7: each of {"documents": [d1, d2]}, {"data": [d1, d2]} and [d1, d2] is
\* normalized to [d1, d2] by _unwrap_n8n_items, _normalize_documents and
\* _normalize_incidents.
C7_AllNormalizersRoundTrip ==
    (op \in {"_unwrap_n8n_items", "_normalize_documents", "_normalize_incidents"}
     /\ arg.shape \in {"documents", "data", "list"}) =>
        res = <<arg.d1, arg.d2>>

\* C7, amended: _normalize_documents yields [d1, d2] for the three shapes;
\* _normalize_incidents yields [d1, d2] for {"incidents": ...}, {"data": ...}
\* and the bare list, and [] for {"documents": ...}; _unwrap_n8n_items yields
\* [d1, d2] for the three shapes when neither record holds a dict or a list
\* under "json".
C7_NormalizersRoundTrip ==
    /\ (op = "_normalize_documents" /\ arg.shape \in {"documents", "data", "list"}) =>
            res = <<arg.d1, arg.d2>>
    /\ (op = "_normalize_incidents" /\ arg.shape \in {"incidents", "data", "list"}) =>
            res = <<arg.d1, arg.d2>>
    /\ (op = "_normalize_incidents" /\ arg.shape = "documents") => res = <<>>
    /\ (op = "_unwrap_n8n_items" /\ arg.shape \in {"documents", "data", "list"}
        /\ ~HoldsJson(arg.d1) /\ ~HoldsJson(arg.d2)) =>
            res = <<arg.d1, arg.d2>>

\* C7 witness: the tracker unwraps {"documents": [d1, d2]} to two different
\* records
C7_Witness ==
    /\ op = "_unwrap_n8n_items"
    /\ arg.shape = "documents" /\ arg.d1 # arg.d2 /\ arg.d1 # EmptyDict
    /\ res = <<arg.d1, arg.d2>>

\* a status poll of the webhook has been answered in this run
WebhookPolled == ~run.use_db /\ run.polls > 0

\* the lower-cased "status" of a response, <<>> when it holds no string
StatusWord(d) == IF IsStr(Get(d, "status")) THEN Lower(Get(d, "status").s) ELSE <<>>

\* C8: in webhook mode every value given to the progress bar lies in [0, 1]
\* and is never below the value given before it.
C8_ProgressNeverDecreases ==
    [][(pc = "loop" /\ ~run.use_db /\ run'.polls = run.polls + 1) =>
            (run'.shown \in 0..Full /\ run'.shown >= run.shown)]_vars

\* C8, amended: in webhook mode every value given to the progress bar lies in
\* [0, 1]; a response whose status is "completed" ends the run as Done; a run
\* ends as Done only within max_wait_s and as TimedOut only beyond it.
C8_WebhookPolling ==
    WebhookPolled =>
        /\ run.shown \in 0..Full
        /\ StatusWord(run.last_status) = W_completed => run.outcome = "Done"
        /\ run.outcome = "Done" => run.elapsed <= MaxWaitS
        /\ run.outcome = "TimedOut" => run.elapsed > MaxWaitS

\* C8 witness: the third response reports completion at full progress
C8_Witness ==
    /\ WebhookPolled /\ run.polls >= 3
    /\ run.outcome = "Done" /\ run.final
    /\ StatusWord(run.last_status) = W_completed
    /\ run.shown = Full

\* the status polls and database queries of this run
Polls == run.polls + run.dbPolls

\* C9: the loop issues a poll only while the elapsed time is at most
\* max_wait_s, at most max_wait_s / interval_s + 1 polls in a run, and every
\* run that enters the loop leaves it.
C9_LoopIsBounded ==
    /\ [](Polls <= (MaxWaitS \div IntervalS) + 1)
    /\ [][Polls' > Polls => run.elapsed <= MaxWaitS]_vars
    /\ (pc = "loop") ~> (pc = "idle")

\* C9 witness: the run times out after the greatest number of polls
C9_Witness ==
    /\ pc = "idle" /\ run.outcome = "TimedOut"
    /\ Polls = (MaxWaitS \div IntervalS) + 1

\* the statuses the specification lists as terminal
ListedStatuses == {W_completed, W_succeeded, W_failed, W_error, W_cancelled}

\* the statuses that end the loop
TerminalStatuses == ListedStatuses \cup {W_complete, W_success}

\* C10: the loop ends as Done exactly when the last polled status, lower-cased,
\* is completed, succeeded, failed, error or cancelled; any other status, and
\* no other field, keeps the loop polling.
C10_ListedStatusesEndLoop ==
    /\ (WebhookPolled /\ run.outcome # "Failed") =>
            (run.outcome = "Done" <=> StatusWord(run.last_status) \in ListedStatuses)
    /\ (run.use_db /\ run.last_events # <<>> /\ run.outcome # "Failed") =>
            (run.outcome = "Done" <=> StatusWord(run.last_status) \in ListedStatuses)

\* C10, amended: the loop ends as Done exactly when the last polled response
\* has done = true or a string status that, lower-cased, is completed,
\* complete, succeeded, success, failed, error or cancelled (in database mode
\* the status is the one inferred from the last event); a truthy status that
\* is no string fails the iteration; while the loop polls the run has no
\* outcome.
C10_TerminalStatusesEndLoop ==
    /\ (WebhookPolled /\ run.outcome # "Failed") =>
            (run.outcome = "Done" <=>
                \/ Get(run.last_status, "done") = Bool(TRUE)
                \/ StatusWord(run.last_status) \in TerminalStatuses)
    /\ (run.use_db /\ run.last_events # <<>> /\ run.outcome # "Failed") =>
            (run.outcome = "Done" <=> InferStatus(run.last_status) \in TerminalStatuses)
    /\ (WebhookPolled /\ IsNumber(Get(run.last_status, "status"))
        /\ Truthy(Get(run.last_status, "status"))
        /\ Get(run.last_status, "done") # Bool(TRUE)) => run.outcome = "Failed"
    /\ pc = "loop" => run.outcome = "none"

\* C10 witness: an upper-case COMPLETED ends the loop
C10_Witness ==
    /\ WebhookPolled /\ run.outcome = "Done"
    /\ Get(run.last_status, "status") = Str(W_COMPLETED)

\* the order of the values of last_upload_run.status within a run
StatusRank == [none |-> 0, starting |-> 1, uploaded |-> 2, polling |-> 3]

\* C11: a poll is issued only after file_upload has returned (the run record
\* says uploaded or polling); a run whose file_upload raised ends with the
\* error and no poll; within a run last_upload_run.status never moves back.
C11_RunOrdering ==
    /\ []((Polls > 0 \/ pc = "loop") =>
            (run.uploads = 1 /\ StatusRank[run.status] >= StatusRank["uploaded"]))
    /\ [](run.outcome = "UploadFailed" =>
            (pc = "idle" /\ Polls = 0 /\ run.uploads = 1 /\ ~run.final
             /\ run.status = "starting"))
    /\ [][pc = "loop" => StatusRank[run'.status] >= StatusRank[run.status]]_vars

\* C11 witness: a run went starting, uploaded, polling and ended Done
C11_Witness ==
    /\ pc = "idle" /\ run.outcome = "Done"
    /\ run.status = "polling" /\ run.polls >= 2 /\ run.uploads = 1

\* C12: an exception in a poll iteration (the webhook call, the database
\* query, the inspection of the status) ends the loop as Failed inside render:
\* the pass goes on to the final result section and issues no further poll.
C12_PollExceptionIsCaught ==
    /\ [](run.outcome = "Failed" => (pc = "idle" /\ run.final /\ Polls >= 1))
    /\ []((WebhookPolled /\ IsDoneRaises(run.last_status)) => run.outcome = "Failed")
    /\ [][run.outcome = "Failed" => ~(Polls' > Polls)]_vars
    /\ [][(pc = "loop" /\ pc' = "idle") => run'.final]_vars

\* C12 witness: the second or a later poll failed and the final result section
\* was rendered
C12_Witness ==
    /\ pc = "idle" /\ run.outcome = "Failed"
    /\ Polls >= 2 /\ run.final

\* C13: a webhook-mode run whose upload response gave a job_id and no
\* poll_url polls the status webhook: when its loop has been left, at least one
\* status poll was issued.
C13_JobIdPollsStatusWebhook ==
    (~run.use_db /\ Truthy(run.job_id) /\ ~Truthy(run.poll_url) /\ run.final) =>
        run.polls >= 1

\* C14: get_live_status never raises: whatever the probe does it returns a
\* record {ok, checked_at, details} with a boolean ok, false when the probe
\* raised, and details holding the backend's ok flag equal to ok.
C14_LiveStatusNeverRaises ==
    op = "get_live_status" =>
        /\ res # Raise
        /\ res.ok \in BOOLEAN
        /\ res.checked_at = arg.now
        /\ HasKey(res.details, "backend")
        /\ Get(Get(res.details, "backend"), "ok") = Bool(res.ok)

\* the demo incidents that match the search text
MatchingDemoIncidents(query) ==
    LET Test(i) == IncidentMatches(i, Lower(Strip(query.s)))
    IN  SelectSeq(DemoIncidents, Test)

\* C15: on the Incidents page a raising webhook call gives the error, the demo
\* hint and no incident list; with the demo toggle on the page lists the two
\* demo incidents and calls no webhook, whatever the network does.
C15_DemoListsBothIncidents ==
    view.page = "incidents" =>
        /\ (~view.demo /\ view.fetch.v = Raise) =>
                (view.outcome = "Error" /\ view.hint /\ view.listed = <<>>)
        /\ view.demo =>
                (view.calls = 0 /\ view.outcome = "Listed"
                 /\ view.listed = DemoIncidents)

\* C15, amended: a raising webhook call gives the error, the demo hint and no
\* incident list; with the demo toggle on the page calls no webhook and lists
\* the demo incidents that match the search text: both when the search box is
\* empty or blank, none ("No incidents found") when nothing matches.
C15_DemoListsMatchingIncidents ==
    view.page = "incidents" =>
        /\ (~view.demo /\ view.fetch.v = Raise) =>
                (view.outcome = "Error" /\ view.hint /\ view.listed = <<>>
                 /\ view.calls = 1)
        /\ view.demo =>
                /\ view.calls = 0 /\ ~view.hint
                /\ view.listed = MatchingDemoIncidents(view.query)
                /\ view.outcome = IF view.listed = <<>> THEN "Empty" ELSE "Listed"
                /\ Strip(view.query.s) = <<>> => view.listed = DemoIncidents

\* C15 witness: the network is down, the demo toggle is on and both demo
\* incidents are listed
C15_Witness ==
    /\ view.page = "incidents" /\ view.demo
    /\ view.fetch.v = Raise
    /\ view.outcome = "Listed" /\ Len(view.listed) = 2 /\ view.calls = 0


\* C16: on every page with a "Use demo data" toggle (KPIs, Incidents, Document
\* Tracker) a render pass with the toggle on performs no webhook call and no
\* database query.
C16_DemoBypassesNetwork ==
    (view.page \in {"kpis", "incidents", "tracker"} /\ view.demo) =>
        (view.calls = 0 /\ view.db = 0)

\* C17: for every JSON-object response of the webhook client (wrong value
\* types, missing keys, scalars where lists or dicts are expected) the KPI,
\* Incidents and Tracker render passes finish without an uncaught exception.
C17_MalformedNeverRaises ==
    view.page \in {"kpis", "incidents", "tracker"} => view.outcome # "Raised"

\* C20: the session chat history is append-only: over every chatbot render
\* pass and prompt submission each message already in chat_messages keeps its
\* position, role and content (and payload), and no message is removed.
C20_ChatHistoryAppendOnly ==
    [][session.chat_messages # None =>
            /\ session'.chat_messages # None
            /\ Len(session'.chat_messages.xs) >= Len(session.chat_messages.xs)
            /\ SubSeq(session'.chat_messages.xs, 1, Len(session.chat_messages.xs))
                 = session.chat_messages.xs]_vars

\* C20 witness: two prompts were submitted, the second one failed, and the
\* history holds the greeting and both exchanges
C20_Witness ==
    /\ view.page = "chatbot" /\ view.outcome = "Error"
    /\ session.chat_messages # None
    /\ Len(session.chat_messages.xs) = 5
    /\ session.chat_messages.xs[1] = Greeting
    /\ HasKey(session.chat_messages.xs[3], "payload")

\* the last message of the chat history
LastMessage == session.chat_messages.xs[Len(session.chat_messages.xs)]

C19_OnePostRaisesOnNon2xx ==
    op \in WebhookOps =>
        /\ res.http_posts = 1 /\ res.timeout = TimeoutS
        /\ ~(res.status >= 200 /\ res.status < 300) => res.value = Raise

\* C19, amended: every webhook operation makes exactly one session.post call
\* with the client's timeout (requests follows redirects inside it, a 307 with
\* a second POST); the call raises when no response arrives or the last
\* response is 4xx or 5xx, and otherwise returns a mapping, also for a last
\* response that is 3xx.
C19_OnePostCallRaisesOnHttpError ==
    op \in WebhookOps =>
        /\ res.session_posts = 1 /\ res.timeout = TimeoutS
        /\ res.http_posts >= 1
        /\ (res.status = 0 \/ (res.status >= 400 /\ res.status < 600))
                => res.value = Raise
        /\ (res.status # 0 /\ ~(res.status >= 400 /\ res.status < 600))
                => (res.value # Raise /\ IsDict(res.value))
        /\ (res.status >= 200 /\ res.status < 300) => res.value = JsonOrText(arg.body)

\* C19 witness: a file upload answered 307 and then 404: the one call raised
C19_Witness ==
    /\ op = "file_upload"
    /\ Len(arg.net) = 2 /\ arg.net[1].status = 307
    /\ res.status = 404 /\ res.value = Raise
    /\ res.session_posts = 1 /\ res.http_posts = 2

\* an element the predicate disregards: None, an empty dict or a blank str
Negligible(x) ==
    \/ x = None
    \/ x = EmptyDict
    \/ (IsStr(x) /\ \A i \in 1..Len(x.s) : x.s[i] \in Whitespace)

\* C21: a list is classified empty exactly when every element is None, an
\* empty dict or a blank str ([], [None], [{}], [" "] are empty, [{"a": 1}] is
\* not), and the chatbot and tracker copies agree on every input.
C21_EffectivelyEmpty ==
    op \in {"chatbot._is_effectively_empty_list", "tracker._is_effectively_empty_list"} =>
        /\ IsList(arg.v) =>
              res = Bool(\A i \in 1..Len(arg.v.xs) : Negligible(arg.v.xs[i]))
        /\ arg.v \in {List(<<>>), List(<<None>>), List(<<EmptyDict>>),
                      List(<<Str(<<" ">>)>>)} => res = Bool(TRUE)
        /\ arg.v = List(<<Dict([a |-> Num(One)])>>) => res = Bool(FALSE)
        /\ ChatIsEffectivelyEmptyList(arg.v) = TrackerIsEffectivelyEmptyList(arg.v)

\* C21 witness: the chatbot copy found [{}, " "] empty
C21_Witness ==
    /\ op = "chatbot._is_effectively_empty_list"
    /\ arg.v = List(<<EmptyDict, Str(<<" ">>)>>)
    /\ res = Bool(TRUE)

\* the result of a first-match-wins policy over keys for the payload p
FirstMatchWins(p, keys, result) ==
    /\ IsList(p) => result = SelectSeq(p.xs, IsDict)
    /\ \A i \in 1..Len(keys) :
          (/\ IsDict(p)
           /\ IsList(Get(p, keys[i]))
           /\ \A j \in 1..(i - 1) : ~IsList(Get(p, keys[j]))) =>
                result = SelectSeq(Get(p, keys[i]).xs, IsDict)
    /\ (IsDict(p) /\ \A i \in 1..Len(keys) : ~IsList(Get(p, keys[i]))) => result = <<>>
    /\ (~IsDict(p) /\ ~IsList(p)) => result = <<>>

\* C22: _normalize_incidents and _normalize_documents try their keys in fixed
\* order and return the dict elements of the first key that holds a list, even
\* an empty one before a key that holds records; with no list under a tried
\* key, or a payload that is neither list nor dict, the result is [] and
\* nothing is raised.
C22_FirstMatchWins ==
    /\ op = "_normalize_incidents" =>
          FirstMatchWins(arg.payload, <<"incidents", "data", "items",
              "results">>, res)
    /\ op = "_normalize_documents" =>
          FirstMatchWins(arg.payload, <<"documents", "data", "items",
              "results">>, res)

\* C22 witness: "documents" holds an empty list and "data" holds a record, and
\* _normalize_documents gave []
C22_Witness ==
    /\ op = "_normalize_documents"
    /\ IsDict(arg.payload)
    /\ Get(arg.payload, "documents") = List(<<>>)
    /\ Get(arg.payload, "data") = List(<<Dict([id |-> Str(W_doc)]), Str(W_doc)>>)
    /\ res = <<>>

\* the statuses _status_bucket counts as terminal success
SuccessStatuses ==
    {W_completed, W_complete, W_success, W_succeeded, W_processed, W_done, W_resolved}

\* the stage names seen in events
StagesSeen(events) == {InferStepName(events[i]) : i \in 1..Len(events)}

\* the stages whose last event, in list order, has a terminal-success status
StagesSucceeded(events) ==
    {s \in StagesSeen(events) :
        \E i \in 1..Len(events) :
            /\ InferStepName(events[i]) = s
            /\ \A j \in (i + 1)..Len(events) : InferStepName(events[j]) # s
            /\ InferStatus(events[i]) \in SuccessStatuses}

ProgressField == Get(arg.status_resp, "progress")

\* C24: a numeric progress v with 0 <= v <= 1 is reported as v, with
\* 1 < v <= 100 as v/100, other numbers are clamped into [0, 1], and a missing
\* or non-numeric progress (a JSON value that is no number) gives no progress
\* update.
C24_ProgressScales ==
    op = "_extract_progress" =>
        /\ ProgressField.t = "num" =>
              /\ res \in 0..Full
              /\ (ProgressField.n >= 0 /\ ProgressField.n <= One) =>
                    res = ProgressField.n * 100
              /\ (ProgressField.n > One /\ ProgressField.n <= 100 * One) =>
                    res = ProgressField.n
              /\ ProgressField.n < 0 => res = 0
              /\ ProgressField.n > 100 * One => res = Full
        /\ ProgressField.t # "num" => res = NoProgress

\* C25: with the database password absent the upload polling loop attempts no
\* database connection and stays in the webhook branch for the whole run, and
\* on the KPI page the configuration error of the partner lookup is caught
\* and the fallback partner list is used; no configuration error leaves
\* render.
C25_NoPasswordNoDatabase ==
    ~pgPassword =>
        /\ ~run.use_db /\ run.dbPolls = 0
        /\ run.outcome = "Failed" => run.polls >= 1
        /\ view.page = "kpis" =>
              /\ view.db = 0
              /\ view.how \in {"none", "session", "not_configured"}
              /\ view.how = "not_configured" => view.partners = List(FallbackPartners)
              /\ view.outcome \in {"NoPlotly", "BadDates", "Error", "Shown"}

\* C25 witness: no password; an upload run of this session has polled its
\* webhook, and now the KPI dashboard is shown with the fallback partners
C25_Witness ==
    /\ ~pgPassword
    /\ run.status = "polling"
    /\ view.page = "kpis" /\ view.how = "not_configured"
    /\ view.partners = List(FallbackPartners)
    /\ view.outcome = "Shown"

\* C26: an upload response with a non-null result and neither poll_url nor
\* job_id is shown immediately, the polling loop never entered (zero polls,
\* zero sleeps); every other pass whose upload succeeded enters the polling
\* loop.
C26_ImmediateOrLoop ==
    [][(/\ pc = "page" /\ page = "File Upload"
        /\ run'.uploads = 1 /\ run'.outcome # "UploadFailed") =>
          \/ /\ run'.outcome = "ImmediateResult"
             /\ ~Truthy(run'.poll_url) /\ ~Truthy(run'.job_id)
             /\ pc' = "idle"
             /\ run'.polls = 0 /\ run'.dbPolls = 0 /\ run'.elapsed = 0
          \/ /\ run'.outcome = "none"
             /\ pc' = "loop"]_vars

\* the pass whose upload succeeded and that ended in the traceback of
\* _extract_poll_target
C26_Crashed ==
    run.uploads = 1 /\ run.outcome = "Crashed" /\ pc = "idle"

\* the first half of C26 alone: the immediate result ends the pass with no
\* poll and no sleep, and a pass that entered the loop had a poll target or no
\* immediate result to show
C26_ImmediateNeverPolls ==
    run.outcome = "ImmediateResult" =>
        /\ pc # "loop"
        /\ run.polls = 0 /\ run.dbPolls = 0 /\ run.elapsed = 0
        /\ ~Truthy(run.poll_url) /\ ~Truthy(run.job_id)

\* C27: the Document Tracker calls the webhook only with demo mode off and a
\* non-blank document id; with demo off and a blank id the pass ends at the
\* prompt message with zero webhook calls; when several documents are returned
\* only the first is rendered.
C27_TrackerCallsAndFirstDocument ==
    view.page = "tracker" =>
        /\ view.calls \in {0, 1}
        /\ view.calls > 0 => (~view.demo /\ Strip(view.doc_id) # <<>>)
        /\ (~view.demo /\ Strip(view.doc_id) = <<>>) =>
              (view.outcome = "Prompt" /\ view.calls = 0 /\ view.doc = None)
        /\ view.outcome = "Shown" =>
              LET documents == IF view.demo THEN DemoDocuments
                               ELSE DocumentsOf(view.fetch.v)
              IN  documents # <<>> /\ view.doc = documents[1]

\* C27 witness: demo off, an id typed, one webhook call returned two different
\* documents and the first of them is on the screen
C27_Witness ==
    /\ view.page = "tracker" /\ ~view.demo /\ Strip(view.doc_id) # <<>>
    /\ view.calls = 1 /\ view.outcome = "Shown"
    /\ Len(DocumentsOf(view.fetch.v)) = 2
    /\ DocumentsOf(view.fetch.v)[1] # DocumentsOf(view.fetch.v)[2]
    /\ view.doc = DocumentsOf(view.fetch.v)[1]

\* C28: in database mode every status _status_bucket classifies as finished
\* (bucket ok or fail) is terminal for _is_done: the loop never goes on
\* polling while the last event's status is a finished one, and a run that
\* timed out never showed completion ratio 1.0.
C28_BucketsAgreeWithIsDone ==
    (run.use_db /\ run.last_events # <<>>) =>
        /\ pc = "loop" =>
              StatusBucket(InferStatus(run.last_status)) \notin {"ok", "fail"}
        /\ run.outcome = "TimedOut" => run.shown # Full

\* the database-mode run that timed out with every stage shown as finished
C28_TimedOutAtFullRatio ==
    /\ run.use_db /\ run.outcome = "TimedOut" /\ run.shown = Full
    /\ StatusBucket(InferStatus(run.last_status)) = "ok"

\* the chat history before a render pass appends to it (the greeting alone
\* when the session has none yet)
HistoryOf(s) == IF s.chat_messages = None THEN <<Greeting>> ELSE s.chat_messages.xs

\* C29: after any sequence of prompt submissions (plain answer, structured
\* answer or failed webhook call) chat_messages is the assistant greeting
\* followed by strictly alternating user/assistant messages; each non-blank
\* prompt appends exactly one user message and then exactly one assistant
\* message, and a blank or whitespace-only prompt appends nothing and issues
\* no webhook call.
C29_ChatHistoryShape ==
    [][LET before == HistoryOf(session)
           after  == HistoryOf(session')
           prompt == view'.prompt
           blank  == IF prompt = None THEN TRUE ELSE Strip(prompt.s) = <<>>
       IN  /\ session'.chat_messages # None
           /\ after[1] = Greeting
           /\ \A i \in 2..Len(after) :
                 Get(after[i], "role") =
                     Get(IF i % 2 = 0 THEN UserMessage(<<>>) ELSE Greeting, "role")
           /\ blank => (after = before /\ view'.calls = 0)
           /\ ~blank =>
                 /\ Len(after) = Len(before) + 2
                 /\ SubSeq(after, 1, Len(before)) = before
                 /\ after[Len(before) + 1] = UserMessage(Strip(prompt.s))
                 /\ view'.calls = 1]_vars

\* C29 witness: the greeting, an exchange with an answer and an exchange whose
\* call failed are in the history, and the last pass had a whitespace-only
\* prompt, no call and nothing appended
C29_Witness ==
    /\ view.page = "chatbot" /\ view.prompt = Str(<<" ">>)
    /\ view.outcome = "Idle" /\ view.calls = 0
    /\ session.chat_messages # None
    /\ Len(session.chat_messages.xs) = 5
    /\ session.chat_messages.xs[1] = Greeting
    /\ session.chat_messages.xs[2] = UserMessage(<<"h", "i">>)
    /\ ~HasKey(session.chat_messages.xs[3], "payload")
    /\ session.chat_messages.xs[4] = UserMessage(<<"s", "l", "a">>)
    /\ session.chat_messages.xs[5] = ChatAppended(<<"s", "l", "a">>, Raise)[2]

\* the Feature that matches a page of the navigation
PageFeature(label) ==
    CASE label = "KPI Dashboard"       -> "kpis"
      [] label = "Incident Drill-down" -> "incidents"
      [] label = "File Upload"         -> "upload"
      [] label = "Chatbot"             -> "chatbot"

\* the page is among visible_pages for the role
IsVisible(label, role) ==
    \E i \in 1..Len(VisiblePages(role)) : VisiblePages(role)[i] = label

\* C30: navigation and resolver agree: for every role R of Ops, Manager, Exec
\* and every page with a matching Feature, the page is visible in app.main's
\* navigation for R if and only if can_access(feature, R) is true; so the page
\* a pass dispatches to is one its selected role can access.
C30_NavigationAgreesWithResolver ==
    /\ \A R \in UserRole, i \in 1..Len(PageLabels) :
          IsVisible(PageLabels[i], R) <=> CanAccess(PageFeature(PageLabels[i]), R)
    /\ page # "none" =>
          CanAccess(PageFeature(page), GetSelectedRole(selected_role))

\* C30 witness: Exec is selected and a pass runs the Chatbot page; File Upload
\* is neither visible to Exec nor accessible to it
C30_Witness ==
    /\ pc = "page" /\ selected_role = "Exec" /\ page = "Chatbot"
    /\ ~IsVisible("File Upload", "Exec")
    /\ ~CanAccess("upload", "Exec")
    /\ IsVisible("File Upload", "Manager") /\ CanAccess("upload", "Manager")
=============================================================================
